---- MODULE Spec2Model ----
(***************************************************************************)
(* Model of the scheduling engine of apple-calendar-mcp: the interval      *)
(* predicate, conflict detection, free-slot search, optimal-slot selection *)
(* (utils/conflict-detector) and the recurrence expansion done by          *)
(* listEvents / listAllEvents (applescript/event-ops).                     *)
(*                                                                         *)
(* A Date is modelled by its time value in MINUTES on the local clock,     *)
(* counted from a local midnight; 30 * 60 * 1000 ms is therefore 30.       *)
(***************************************************************************)
EXTENDS Integers, Sequences, FiniteSets, TLC

VARIABLES
  called,               \* name of the function that has been applied ("init" before)
  ret,                  \* its return value
  slot1, slot2,         \* hasOverlap(slot1, slot2)
  timeSlot,             \* findConflicts / isFree (timeSlot, events)
  events,               \* Event[] handed to the engine
  startDate, endDate,   \* findFreeSlots search range
  endMillis,            \* the milliseconds of endDate past the whole minute
  duration,             \* findFreeSlots required duration
  businessHoursOnly,    \* findFreeSlots flag
  candidates,           \* findOptimalSlot candidates
  preferences,          \* findOptimalSlot preferred hours (may be absent)
  lines,                \* the records the calendar backend returns, one per event
  calendar,             \* listEvents calendar name
  queryStartDate, queryEndDate,  \* listEvents / listAllEvents date range
  tzOffset,             \* Date.prototype.getTimezoneOffset(): UTC minus local, in minutes
  calendars,            \* the names of the calendars the backend holds
  history,              \* the rows of the history table, oldest first
  request,              \* the tool call that has been handled: its name and arguments
  templates,            \* the rows of the templates table
  cursor,               \* findFreeSlots: currentTime, the start of the next candidate
  accepted,             \* findFreeSlots: freeSlots, the slots pushed so far
  pending               \* the tool calls that wait at an await, by caller

vars == <<called, ret, slot1, slot2, timeSlot, events, startDate, endDate, endMillis,
          duration, businessHoursOnly, candidates, preferences, lines,
          calendar, queryStartDate, queryEndDate, tzOffset, calendars,
          history, request, templates, cursor, accepted, pending>>

-----------------------------------------------------------------------------
(* Bounds of the model *)

MaxT == 3            \* instants 0..MaxT for the interval predicate
MaxEvents == 2       \* longest Event[] handed to findConflicts / isFree
MaxRange == 6        \* longest search range, in quarter hours
MaxDuration == 4     \* longest required duration, in quarter hours
MaxBusy == 2         \* longest Event[] handed to findFreeSlots
MaxEvOff == 3        \* latest event start after the range start, in quarter hours
MaxEvLen == 2        \* longest event, in quarter hours
MaxCandidates == 3   \* longest candidate list handed to findOptimalSlot
MaxLines == 2        \* most events the calendar backend holds
MaxQueryDays == 1    \* longest listing range, in days
MaxBack == 8         \* most days between a weekly base start and the range start
MaxMillis == 1       \* most milliseconds of a period end past the whole minute
MaxCalendars == 3    \* most calendars the backend holds
MaxHistory == 3      \* most rows of the history table
MaxStored == 2       \* most events the backend holds while the event tools are called
MaxRows == 2         \* most history rows while the event tools are called
MaxTemplates == 1    \* most rows of the templates table
MaxLog == 101        \* most history rows written by a long run of delete_event
MaxLoopBusy == 1     \* most events findFreeSlots is given when followed step by step
MaxPending == 2      \* most calendar requests the server is given in one run

-----------------------------------------------------------------------------
(* Values *)

Times == 0..MaxT

\* TimeSlot {start, end}: nothing enforces start < end
Slots == [start : Times, end : Times]

ProperSlots == {s \in Slots : s.start <= s.end}

Uids == {"a", "b"}

\* Event: uid, startDate, endDate (the descriptive fields play no part)
Event(u, s, e) == [uid |-> u, startDate |-> s, endDate |-> e]

SeqsUpTo(S, n) == UNION {[1..k -> S] : k \in 0..n}

NoSlot == [start |-> 0, end |-> 0]

\* null
Null == [null |-> TRUE]

\* an omitted preferences argument
Absent == [given |-> FALSE, hours |-> <<>>]

\* minute of the local clock at h:m
HM(h, m) == h * 60 + m

-----------------------------------------------------------------------------
(* utils/conflict-detector *)

hasOverlap_le(s1, s2) ==
  (s1.start <= s2.end /\ s1.end >= s2.start) \/
  (s2.start <= s1.end /\ s2.end >= s1.start)

hasOverlap_contains(s1, s2) ==
  (s1.start < s2.end /\ s1.end > s2.start /\ s1.start < s1.end) \/
  (s2.start < s1.end /\ s2.end > s1.start /\ s1.start < s1.end)

hasOverlap(s1, s2) ==
  (s1.start < s2.end /\ s1.end > s2.start) \/
  (s2.start < s1.end /\ s2.end > s1.start)

eventSlot(event) == [start |-> event.startDate, end |-> event.endDate]

\* events.filter(...): a new array of the events that pass, in input order
RECURSIVE findConflicts_first(_, _)
findConflicts_first(ts, evs) ==
  IF evs = <<>> THEN <<>>
  ELSE IF hasOverlap(ts, eventSlot(Head(evs))) THEN <<Head(evs)>>
       ELSE findConflicts_first(ts, Tail(evs))

RECURSIVE findConflicts(_, _)
findConflicts(ts, evs) ==
  IF evs = <<>> THEN <<>>
  ELSE IF hasOverlap(ts, eventSlot(Head(evs)))
       THEN <<Head(evs)>> \o findConflicts(ts, Tail(evs))
       ELSE findConflicts(ts, Tail(evs))

isFree(ts, evs) == Len(findConflicts(ts, evs)) = 0

\* const step = 30 * 60 * 1000, in minutes
step == 30

\* quarter of an hour: the grain of the instants the model draws
Grain == step \div 2

\* Date.prototype.getHours(): hour of the day on the local clock
getHours(t) == (t \div 60) % 24

\* while (currentTime.getTime() + duration <= endDate.getTime())
fits_lt(currentTime, dur, rangeEnd) == currentTime + dur < rangeEnd

fits(currentTime, dur, rangeEnd) == currentTime + dur <= rangeEnd

\* if (hour < 9 || hour >= 17)
outsideBusinessHours_gt(hour) == hour < 9 \/ hour > 17

outsideBusinessHours(hour) == hour < 9 \/ hour >= 17

\* currentTime = new Date(currentTime.getTime() + step)
advance_hour(currentTime) == currentTime + 2 * step

advance(currentTime) == currentTime + step

\* the while loop of findFreeSlots; freeSlots is the array built so far
RECURSIVE findFreeSlotsLoop(_, _, _, _, _, _)
findFreeSlotsLoop(currentTime, rangeEnd, dur, evs, bho, freeSlots) ==
  IF ~fits(currentTime, dur, rangeEnd) THEN freeSlots
  ELSE IF bho /\ outsideBusinessHours(getHours(currentTime))
  THEN findFreeSlotsLoop(advance(currentTime), rangeEnd, dur, evs, bho,
                         freeSlots)
  ELSE LET slot == [start |-> currentTime, end |-> currentTime + dur]
       IN  findFreeSlotsLoop(advance(currentTime), rangeEnd, dur, evs, bho,
                             IF isFree(slot, evs) THEN Append(freeSlots, slot)
                                                  ELSE freeSlots)

findFreeSlots(rangeStart, rangeEnd, dur, evs, bho) ==
  findFreeSlotsLoop(rangeStart, rangeEnd, dur, evs, bho, <<>>)

\* candidates.filter(slot => isFree(slot, events))
freeCandidates_all(cands, evs) == cands

RECURSIVE freeCandidates(_, _)
freeCandidates(cands, evs) ==
  IF cands = <<>> THEN <<>>
  ELSE IF isFree(Head(cands), evs)
       THEN <<Head(cands)>> \o freeCandidates(Tail(cands), evs)
       ELSE freeCandidates(Tail(cands), evs)

\* preferences.includes(hour)
includes(arr, x) == \E i \in 1..Len(arr) : arr[i] = x

\* freeSlots.map(slot => ({ slot, score }))
scoredSlots(freeSlots, hours) ==
  [i \in 1..Len(freeSlots) |->
     [slot |-> freeSlots[i],
      score |-> IF includes(hours, getHours(freeSlots[i].start)) THEN 1 ELSE 0]]

\* the comparator (a, b) => b.score - a.score
compareScore_ascending(a, b) == a.score - b.score

compareScore(a, b) == b.score - a.score

\* Array.prototype.sort is stable: x goes behind every element that does not
\* compare greater than it
RECURSIVE insertSorted(_, _)
insertSorted(sorted, x) ==
  IF sorted = <<>> THEN <<x>>
  ELSE IF compareScore(Head(sorted), x) > 0
       THEN <<x>> \o sorted
       ELSE <<Head(sorted)>> \o insertSorted(Tail(sorted), x)

RECURSIVE sort(_)
sort(arr) ==
  IF arr = <<>> THEN <<>>
  ELSE insertSorted(sort(SubSeq(arr, 1, Len(arr) - 1)), arr[Len(arr)])

\* preferences is [given, hours]: given is FALSE when the argument is omitted
findOptimalSlot(cands, evs, prefs) ==
  LET freeSlots == freeCandidates(cands, evs)
  IN  IF Len(freeSlots) = 0 THEN Null
      ELSE IF Len(freeSlots) = 1 THEN freeSlots[1]
      ELSE IF prefs.given /\ Len(prefs.hours) > 0
           THEN sort(scoredSlots(freeSlots, prefs.hours))[1].slot
           ELSE freeSlots[1]


-----------------------------------------------------------------------------
(* applescript/event-ops: listEvents and listAllEvents *)

\* 24 hours, in minutes
Day == 24 * 60

\* A record of the backend: the fields of one output line after split('|')
\* and new Date(...).  recurrence is the text of the last field:
\*   kind "absent"    the field is missing (undefined)
\*   kind "empty"     the empty string
\*   kind "blank"     white space only
\*   kind "malformed" a text rrulestr rejects
\*   kind "rule"      FREQ=...: an occurrence every `every` minutes from
\*                    DTSTART on, `count` of them (0: no COUNT part)
Recurrence(k, e, c) == [kind |-> k, every |-> e, count |-> c]

NoRule(k) == Recurrence(k, 0, 0)

\* recurrence && recurrence.trim()
hasRule(recurrence) ==
  /\ recurrence.kind \notin {"absent", "empty"}
  /\ recurrence.kind # "blank"

\* rrulestr(...) throws on a text that is no rule
rrulestrThrows(recurrence) == recurrence.kind # "rule"

\* rule.between(after, before, false) leaves both ends out
RECURSIVE between_exclusive(_, _, _, _, _)
between_exclusive(recurrence, dtstart, k, after, before) ==
  LET occurrence == dtstart + k * recurrence.every
  IN  IF occurrence >= before \/ (recurrence.count > 0 /\ k >= recurrence.count)
      THEN <<>>
      ELSE (IF occurrence > after THEN <<occurrence>> ELSE <<>>)
             \o between_exclusive(recurrence, dtstart, k + 1, after, before)

\* rule.between(after, before, true): the occurrences dtstart + k * every,
\* in increasing order, that lie in [after, before], both ends included
RECURSIVE between(_, _, _, _, _)
between(recurrence, dtstart, k, after, before) ==
  LET occurrence == dtstart + k * recurrence.every
  IN  IF occurrence > before \/ (recurrence.count > 0 /\ k >= recurrence.count)
      THEN <<>>
      ELSE (IF occurrence >= after THEN <<occurrence>> ELSE <<>>)
             \o between(recurrence, dtstart, k + 1, after, before)

\* const duration = endDate.getTime() - startDate.getTime()
eventDuration_end(start, end) == end

eventDuration(start, end) == end - start

\* startDate >= queryStartDate && startDate <= queryEndDate
inQueryRange_open(start, qs, qe) == start >= qs /\ start < qe

inQueryRange(start, qs, qe) == start >= qs /\ start <= qe

ListedEvent(cal, u, s, e) ==
  [calendar |-> cal, uid |-> u, startDate |-> s, endDate |-> e]

\* a catch block that keeps the base event only when it starts in the range
eventsOfLine_strictFallback(cal, line, qs, qe) ==
  LET dur == eventDuration(line.startDate, line.endDate)
  IN  IF hasRule(line.recurrence) /\ ~rrulestrThrows(line.recurrence)
      THEN LET occurrences ==
                 between(line.recurrence, line.startDate, 0, qs, qe)
           IN  [i \in 1..Len(occurrences) |->
                  ListedEvent(cal, line.uid, occurrences[i], occurrences[i] + dur)]
      ELSE IF inQueryRange(line.startDate, qs, qe)
           THEN <<ListedEvent(cal, line.uid, line.startDate, line.endDate)>>
           ELSE <<>>

\* the body of the loop over the lines: the events one line contributes
eventsOfLine(cal, line, qs, qe) ==
  LET dur == eventDuration(line.startDate, line.endDate)
  IN  IF hasRule(line.recurrence)
      THEN IF rrulestrThrows(line.recurrence)
           THEN <<ListedEvent(cal, line.uid, line.startDate, line.endDate)>>
           ELSE LET occurrences ==
                      between(line.recurrence, line.startDate, 0, qs, qe)
                IN  [i \in 1..Len(occurrences) |->
                       ListedEvent(cal, line.uid, occurrences[i],
                                   occurrences[i] + dur)]
      ELSE IF inQueryRange(line.startDate, qs, qe)
           THEN <<ListedEvent(cal, line.uid, line.startDate, line.endDate)>>
           ELSE <<>>

\* tell calendar "...": every event -- the lines of one calendar only
RECURSIVE listEvents(_, _, _, _)
listEvents(ls, cal, qs, qe) ==
  IF ls = <<>> THEN <<>>
  ELSE (IF Head(ls).calendar = cal THEN eventsOfLine(cal, Head(ls), qs, qe)
                                   ELSE <<>>)
         \o listEvents(Tail(ls), cal, qs, qe)

\* repeat with cal in calendars: the lines of every calendar
RECURSIVE listAllEvents(_, _, _)
listAllEvents(ls, qs, qe) ==
  IF ls = <<>> THEN <<>>
  ELSE eventsOfLine(Head(ls).calendar, Head(ls), qs, qe)
         \o listAllEvents(Tail(ls), qs, qe)

-----------------------------------------------------------------------------
(* utils/conflict-detector: schedule analytics *)

\* one minute and 24 * 60 * 60 * 1000, in milliseconds
MsPerMinute == 60 * 1000

MsPerDay == 24 * 60 * 60 * 1000

\* Date.prototype.getTime() of the date at minute t plus ms milliseconds
getTime(t, ms) == t * MsPerMinute + ms

\* Math.ceil(a / b) for b > 0
ceil_floor(a, b) == a \div b

ceil(a, b) == IF a % b = 0 THEN a \div b ELSE (a \div b) + 1

\* events.length / days, kept as the fraction num / den
calculateMeetingDensity(evs, startMs, endMs) ==
  LET days == ceil(endMs - startMs, MsPerDay)
  IN  [num |-> Len(evs), den |-> days]

\* events.reduce((total, event) => total + (end - start), 0)
RECURSIVE calculateTotalDuration_last(_)
calculateTotalDuration_last(evs) ==
  IF evs = <<>> THEN 0
  ELSE evs[Len(evs)].endDate - evs[Len(evs)].startDate

RECURSIVE calculateTotalDuration(_)
calculateTotalDuration(evs) ==
  IF evs = <<>> THEN 0
  ELSE calculateTotalDuration(SubSeq(evs, 1, Len(evs) - 1))
         + (evs[Len(evs)].endDate - evs[Len(evs)].startDate)

\* event.startDate.toISOString().split('T')[0]: the date on the UTC clock,
\* as the number of its day; tzo is getTimezoneOffset()
dateKey(t, tzo) == (t + tzo) \div Day

\* grouped.get(dateKey) || []; push; grouped.set: a Map, as its entries in
\* insertion order
mapSet(grouped, key, event) ==
  IF \E g \in 1..Len(grouped) : grouped[g].key = key
  THEN [g \in 1..Len(grouped) |->
          IF grouped[g].key = key
          THEN [key |-> key, events |-> Append(grouped[g].events, event)]
          ELSE grouped[g]]
  ELSE Append(grouped, [key |-> key, events |-> <<event>>])

RECURSIVE groupEventsByDay(_, _)
groupEventsByDay(evs, tzo) ==
  IF evs = <<>> THEN <<>>
  ELSE mapSet(groupEventsByDay(SubSeq(evs, 1, Len(evs) - 1), tzo),
              dateKey(evs[Len(evs)].startDate, tzo), evs[Len(evs)])

-----------------------------------------------------------------------------
(* The objects findFreeSlots and findOptimalSlot work on, by the name of   *)
(* the variable that holds them, after the last statement has run.  Only   *)
(* push and sort change an array in place; filter, map and new Date(...)   *)
(* make a new object.                                                      *)

\* new Date(startDate) is a copy and currentTime is re-bound, never set;
\* freeSlots.push(slot) grows the local array
findFreeSlotsObjects(rangeStart, rangeEnd, dur, evs, bho) ==
  [startDate |-> rangeStart, endDate |-> rangeEnd, events |-> evs,
   freeSlots |-> findFreeSlots(rangeStart, rangeEnd, dur, evs, bho)]

\* a sort of the candidates themselves, best score first
findOptimalSlotObjects_sortCandidates(cands, evs, prefs) ==
  LET ranked == sort(scoredSlots(cands, prefs.hours))
  IN  [candidates |-> IF prefs.given /\ Len(prefs.hours) > 0
                      THEN [i \in 1..Len(cands) |-> ranked[i].slot]
                      ELSE cands,
       events |-> evs,
       freeSlots |-> freeCandidates(cands, evs),
       scoredSlots |-> <<>>]

findOptimalSlotObjects(cands, evs, prefs) ==
  LET o0 == [candidates |-> cands, events |-> evs,
             freeSlots |-> <<>>, scoredSlots |-> <<>>]
      \* const freeSlots = candidates.filter(...)
      o1 == [o0 EXCEPT !.freeSlots = freeCandidates(o0.candidates, o0.events)]
      scoring == Len(o1.freeSlots) >= 2 /\ prefs.given /\ Len(prefs.hours) > 0
      \* const scoredSlots = freeSlots.map(...)
      o2 == IF scoring
            THEN [o1 EXCEPT !.scoredSlots = scoredSlots(o1.freeSlots, prefs.hours)]
            ELSE o1
      \* scoredSlots.sort(...)
      o3 == IF scoring THEN [o2 EXCEPT !.scoredSlots = sort(o2.scoredSlots)]
            ELSE o2
  IN  o3

-----------------------------------------------------------------------------
(* utils/date-parser and the scheduling tools of server.ts *)

\* A text argument, by what chrono makes of it: given is FALSE when the
\* argument is missing or empty, parses is FALSE when chrono returns null
DateText(t) == [given |-> TRUE, parses |-> TRUE, date |-> t]

Gibberish == [given |-> TRUE, parses |-> FALSE, date |-> 0]

NoText == [given |-> FALSE, parses |-> FALSE, date |-> 0]

\* throw new Error(`Could not parse date: ...`)
CouldNotParse == <<"Could not parse date">>

\* throw new Error('End date must be after start date')
EndMustBeAfterStart == <<"End date must be after start date">>

\* A throw of parseDateRange, with the message of the Error
ParseFailure(message) ==
  [ok |-> FALSE, start |-> 0, end |-> 0, message |-> message]

endNotAfterStart_lt(start, end) == end < start

\* if (end <= start) throw
endNotAfterStart(start, end) == end <= start

\* parseDateRange(startInput, endInput, defaultDuration): a throw of
\* parseDateTime or of the end <= start test is ok = FALSE
parseDateRangeWith(startInput, endInput, defaultDuration) ==
  IF ~startInput.parses THEN ParseFailure(CouldNotParse)
  ELSE IF endInput.given /\ ~endInput.parses THEN ParseFailure(CouldNotParse)
  ELSE LET start == startInput.date
           end == IF endInput.given THEN endInput.date
                  ELSE start + defaultDuration
       IN  IF endNotAfterStart(start, end) THEN ParseFailure(EndMustBeAfterStart)
           ELSE [ok |-> TRUE, start |-> start, end |-> end, message |-> <<>>]

\* parseDateRange(startInput, endInput): defaultDuration = 1 hour
parseDateRange(startInput, endInput) ==
  parseDateRangeWith(startInput, endInput, 60)

\* A calendar name is a sequence of pieces of text: Comma is the piece
\* ', ', Space a blank, and every other piece is text holding neither
Comma == ", "

Space == " "

Name(text) == <<text>>

RECURSIVE join(_)
\* the text osascript prints for a list of names: the items with ', ' between
join(names) ==
  IF names = <<>> THEN <<>>
  ELSE IF Len(names) = 1 THEN names[1]
  ELSE names[1] \o <<Comma>> \o join(Tail(names))

RECURSIVE trimStart(_)
trimStart(str) ==
  IF str # <<>> /\ Head(str) = Space THEN trimStart(Tail(str)) ELSE str

RECURSIVE trimEnd(_)
trimEnd(str) ==
  IF str # <<>> /\ str[Len(str)] = Space
  THEN trimEnd(SubSeq(str, 1, Len(str) - 1)) ELSE str

\* String.prototype.trim
trim(str) == trimEnd(trimStart(str))

RECURSIVE split(_)
\* result.split(', ')
split(str) ==
  IF \A i \in 1..Len(str) : str[i] # Comma THEN <<str>>
  ELSE LET i == CHOOSE k \in 1..Len(str) :
                  str[k] = Comma /\ \A m \in 1..(k - 1) : str[m] # Comma
       IN  <<SubSeq(str, 1, i - 1)>> \o split(SubSeq(str, i + 1, Len(str)))

\* listCalendars over the calendars the backend holds: the names as the
\* code reads them back from the printed list
listCalendars(cals) ==
  LET result == trim(join(cals))
  IN  IF result = <<>> THEN <<>>
      ELSE [i \in 1..Len(split(result)) |-> trim(split(result)[i])]

\* calendars.some(cal => cal.name === name)
calendarExists(cals, name) ==
  \E i \in 1..Len(listCalendars(cals)) : listCalendars(cals)[i] = name

\* What Calendar itself holds: a calendar with exactly this name
Holds(cals, name) == \E i \in 1..Len(cals) : cals[i] = name

FirstNamed(cals, name) == CHOOSE i \in 1..Len(cals) :
  cals[i] = name /\ \A m \in 1..(i - 1) : cals[m] # name

\* make new calendar with properties {name: ...}: Calendar accepts a name
\* it already holds
createCalendar(cals, name) == [ok |-> TRUE, calendars |-> Append(cals, name)]

\* delete calendar "name": an AppleScript error when there is none
deleteCalendar(cals, name) ==
  IF ~Holds(cals, name) THEN [ok |-> FALSE, calendars |-> cals]
  ELSE LET i == FirstNamed(cals, name)
       IN  [ok |-> TRUE,
            calendars |-> SubSeq(cals, 1, i - 1) \o SubSeq(cals, i + 1, Len(cals))]

\* set name of calendar "oldName" to "newName"
renameCalendar(cals, oldName, newName) ==
  IF ~Holds(cals, oldName) THEN [ok |-> FALSE, calendars |-> cals]
  ELSE [ok |-> TRUE,
        calendars |-> [cals EXCEPT ![FirstNamed(cals, oldName)] = newName]]

\* cleanupHistory keeps the LIMIT 100 newest rows; nothing calls it
historyLimit == 100

\* recordHistory: one more row in the history table
recordHistory(hist, actionType, entityType, entityId, previousState, newState) ==
  Append(hist, [action_type |-> actionType, entity_type |-> entityType,
                entity_id |-> entityId, previous_state |-> previousState,
                new_state |-> newState])

\* error(message): isError with the text 'Error: ' + message
ErrorResponse(message) ==
  [isError |-> TRUE, text |-> <<"Error: ">> \o message, conflicts |-> <<>>,
   slots |-> <<>>]

\* a catch that answers with the message alone
Caught_bare(message) ==
  [isError |-> TRUE, text |-> message, conflicts |-> <<>>, slots |-> <<>>]

\* catch (error): isError with the text 'Error: ' + error.message
Caught(message) ==
  [isError |-> TRUE, text |-> <<"Error: ">> \o message, conflicts |-> <<>>,
   slots |-> <<>>]

\* throw new Error(`AppleScript execution failed: ...`)
AppleScriptFailed == <<"AppleScript execution failed">>

\* success(text)
SuccessResponse(text) ==
  [isError |-> FALSE, text |-> text, conflicts |-> <<>>, slots |-> <<>>]

\* What a handler leaves behind: its response, the calendars of the
\* backend and the history table
Outcome(response, cals, hist) ==
  [ret |-> response, calendars |-> cals, history |-> hist]

\* case 'create_calendar'; a name that is missing or empty fails
\* calendarNameSchema
create_calendar(args, cals, hist) ==
  IF args.name = <<>> THEN Outcome(ErrorResponse(<<"validation">>), cals, hist)
  ELSE IF calendarExists(cals, args.name)
  THEN Outcome(ErrorResponse(<<"already exists">>), cals, hist)
  ELSE LET made == createCalendar(cals, args.name)
       IN  Outcome(SuccessResponse(<<"Created calendar">>), made.calendars,
                   recordHistory(hist, "create", "calendar", args.name,
                                 Null, args.name))

\* case 'delete_calendar': the history row is written before the backend
\* is asked, and a throw of the backend ends in the catch of the handler
delete_calendar(args, cals, hist) ==
  IF args.name = <<>> THEN Outcome(ErrorResponse(<<"validation">>), cals, hist)
  ELSE IF ~calendarExists(cals, args.name)
  THEN Outcome(ErrorResponse(<<"not found">>), cals, hist)
  ELSE LET recorded == recordHistory(hist, "delete", "calendar", args.name,
                                     args.name, Null)
           deleted == deleteCalendar(cals, args.name)
       IN  IF deleted.ok
           THEN Outcome(SuccessResponse(<<"Deleted calendar">>), deleted.calendars,
                        recorded)
           ELSE Outcome(Caught(AppleScriptFailed), cals,
                        recorded)

\* case 'rename_calendar'
rename_calendar(args, cals, hist) ==
  IF args.old_name = <<>> \/ args.new_name = <<>>
  THEN Outcome(ErrorResponse(<<"Both old_name and new_name are required">>), cals, hist)
  ELSE IF ~calendarExists(cals, args.old_name)
  THEN Outcome(ErrorResponse(<<"not found">>), cals, hist)
  ELSE IF calendarExists(cals, args.new_name)
  THEN Outcome(ErrorResponse(<<"already exists">>), cals, hist)
  ELSE LET recorded == recordHistory(hist, "rename", "calendar", args.old_name,
                                     args.old_name, args.new_name)
           renamed == renameCalendar(cals, args.old_name, args.new_name)
       IN  IF renamed.ok
           THEN Outcome(SuccessResponse(<<"Renamed calendar">>), renamed.calendars,
                        recorded)
           ELSE Outcome(Caught(AppleScriptFailed), cals,
                        recorded)

\* formatDateForAppleScript: the date, the hour on the 12-hour clock, the
\* minutes and AM or PM (the day and month names follow from the date)
formatDateForAppleScript(date) ==
  [date |-> date \div Day,
   displayHours |-> IF getHours(date) % 12 = 0 THEN 12 ELSE getHours(date) % 12,
   minutes |-> date % 60,
   ampm |-> IF getHours(date) >= 12 THEN "PM" ELSE "AM"]

\* date "...": the instant AppleScript reads from that text
appleScriptDate(str) ==
  str.date * Day
    + ((str.displayHours % 12) + (IF str.ampm = "PM" THEN 12 ELSE 0)) * 60
    + str.minutes

\* initSettings.run('default_calendar', 'life'); no tool changes a setting
default_calendar == Name("life")

\* initSettings.run('default_event_duration', '3600000'), in minutes
default_event_duration == 3600000 \div MsPerMinute

\* The uid Calendar gives event number k
EventUid(k) == <<"uid", ToString(k)>>

\* A uid that no event holds and no history row names
freshUid(ls, hist) ==
  LET taken == {ls[i].uid : i \in 1..Len(ls)}
                 \cup {hist[i].entity_id : i \in 1..Len(hist)}
  IN  EventUid(CHOOSE k \in 1..(Len(ls) + Len(hist) + 1) :
                 /\ EventUid(k) \notin taken
                 /\ \A m \in 1..(k - 1) : EventUid(m) \in taken)

\* What a call of the event backend gives: ok = FALSE is a throw of
\* executeAppleScript
BackendThrows(ls) == [ok |-> FALSE, lines |-> ls, uid |-> <<>>]

\* createEvent: tell calendar "..." to make new event; an AppleScript
\* error when Calendar holds no calendar of that name
createEvent(cals, ls, hist, calendarName, summary, start, end) ==
  IF ~Holds(cals, calendarName) THEN BackendThrows(ls)
  ELSE LET uid == freshUid(ls, hist)
       IN  [ok |-> TRUE, uid |-> uid,
            lines |-> Append(ls,
              [calendar |-> calendarName, uid |-> uid, summary |-> summary,
               startDate |-> appleScriptDate(formatDateForAppleScript(start)),
               endDate |-> appleScriptDate(formatDateForAppleScript(end)),
               recurrence |-> NoRule("empty")])]

HoldsEvent(ls, uid) == \E i \in 1..Len(ls) : ls[i].uid = uid

FirstEvent(ls, uid) == CHOOSE i \in 1..Len(ls) :
  ls[i].uid = uid /\ \A m \in 1..(i - 1) : ls[m].uid # uid

RemoveAt(seq, i) == SubSeq(seq, 1, i - 1) \o SubSeq(seq, i + 1, Len(seq))

\* deleteEvent: error "Event not found" when no calendar holds the uid
deleteEvent(ls, uid) ==
  IF ~HoldsEvent(ls, uid) THEN BackendThrows(ls)
  ELSE [ok |-> TRUE, uid |-> uid, lines |-> RemoveAt(ls, FirstEvent(ls, uid))]

\* What an event handler leaves behind: its response, the events of the
\* backend and the history table
EventOutcome(response, ls, hist) ==
  [ret |-> response, lines |-> ls, history |-> hist]

\* case 'create_event'; summary and start must not be empty
\* (createEventSchema), calendar and end may be absent
create_event(args, cals, ls, hist) ==
  IF args.summary = <<>> \/ ~args.start.given
  THEN EventOutcome(ErrorResponse(<<"validation">>), ls, hist)
  ELSE LET calendarName == IF args.calendar # <<>> THEN args.calendar
                           ELSE default_calendar
           parsed == parseDateRangeWith(args.start, args.end,
                                        default_event_duration)
           created == createEvent(cals, ls, hist, calendarName, args.summary,
                                  parsed.start, parsed.end)
       IN  IF ~calendarExists(cals, calendarName)
           THEN EventOutcome(ErrorResponse(<<"Calendar not found">>), ls, hist)
           ELSE IF ~parsed.ok
           THEN EventOutcome(ErrorResponse(<<"Date parsing failed: ">> \o parsed.message), ls, hist)
           ELSE IF ~created.ok
           THEN EventOutcome(Caught(AppleScriptFailed),
                             ls, hist)
           ELSE EventOutcome(SuccessResponse(<<"Created event">>), created.lines,
                             recordHistory(hist, "create", "event", created.uid,
                                           Null, args.summary))

\* case 'delete_event': the history row is written before the backend is
\* asked to delete
delete_event(args, ls, hist) ==
  IF args.event_uid = <<>>
  THEN EventOutcome(ErrorResponse(<<"Event UID is required">>), ls, hist)
  ELSE LET recorded == recordHistory(hist, "delete", "event", args.event_uid,
                                     args.event_uid, Null)
           deleted == deleteEvent(ls, args.event_uid)
       IN  IF deleted.ok
           THEN EventOutcome(SuccessResponse(<<"Deleted event">>), deleted.lines,
                             recorded)
           ELSE EventOutcome(Caught(AppleScriptFailed), ls,
                             recorded)

\* updateEvent: error "Event not found" when no calendar holds the uid;
\* the properties that are given are set
updateEvent(ls, uid, updates) ==
  IF ~HoldsEvent(ls, uid) THEN BackendThrows(ls)
  ELSE LET i == FirstEvent(ls, uid)
           old == ls[i]
       IN  [ok |-> TRUE, uid |-> uid,
            lines |-> [ls EXCEPT ![i] =
              [old EXCEPT
                 !.summary = IF updates.summary.given THEN updates.summary.text
                             ELSE old.summary,
                 !.startDate = IF updates.startDate.given
                               THEN appleScriptDate(formatDateForAppleScript(
                                                      updates.startDate.date))
                               ELSE old.startDate,
                 !.endDate = IF updates.endDate.given
                             THEN appleScriptDate(formatDateForAppleScript(
                                                    updates.endDate.date))
                             ELSE old.endDate]]]

\* A field of update_event that is not given (undefined)
NoField == [given |-> FALSE, text |-> <<>>]

Field(text) == [given |-> TRUE, text |-> text]

\* case 'update_event'; args.start and args.end are NoText when undefined
update_event(args, ls, hist) ==
  IF args.event_uid = <<>>
  THEN EventOutcome(ErrorResponse(<<"validation">>), ls, hist)
  ELSE IF args.start.given /\ ~args.start.parses
  THEN EventOutcome(ErrorResponse(<<"Invalid start date: ">> \o CouldNotParse), ls, hist)
  ELSE IF args.end.given /\ ~args.end.parses
  THEN EventOutcome(ErrorResponse(<<"Invalid end date: ">> \o CouldNotParse), ls, hist)
  ELSE IF ~args.summary.given /\ ~args.start.given /\ ~args.end.given
  THEN EventOutcome(ErrorResponse(<<"No updates provided">>), ls, hist)
  ELSE LET updates == [summary |-> args.summary, startDate |-> args.start,
                       endDate |-> args.end]
           updated == updateEvent(ls, args.event_uid, updates)
       IN  IF ~updated.ok
           THEN EventOutcome(Caught(AppleScriptFailed),
                             ls, hist)
           ELSE EventOutcome(SuccessResponse(<<"Updated event">>), updated.lines,
                             recordHistory(hist, "update", "event",
                                           args.event_uid, Null, updates))

\* moveEvent: the event is copied into the target calendar, where it gets a
\* uid of its own, and the original is deleted; an AppleScript error when
\* the event or the target calendar is not there
moveEvent(cals, ls, hist, uid, targetCalendar) ==
  IF ~HoldsEvent(ls, uid) \/ ~Holds(cals, targetCalendar) THEN BackendThrows(ls)
  ELSE LET i == FirstEvent(ls, uid)
           newUid == freshUid(ls, hist)
       IN  [ok |-> TRUE, uid |-> newUid,
            lines |-> Append(RemoveAt(ls, i),
                             [ls[i] EXCEPT !.calendar = targetCalendar,
                                           !.uid = newUid])]

\* case 'move_event'
move_event(args, cals, ls, hist) ==
  IF args.event_uid = <<>> \/ args.target_calendar = <<>>
  THEN EventOutcome(ErrorResponse(<<"Event UID and target calendar are required">>),
                    ls, hist)
  ELSE IF ~calendarExists(cals, args.target_calendar)
  THEN EventOutcome(ErrorResponse(<<"Target calendar not found">>), ls, hist)
  ELSE LET moved == moveEvent(cals, ls, hist, args.event_uid,
                              args.target_calendar)
       IN  IF ~moved.ok
           THEN EventOutcome(Caught(AppleScriptFailed),
                             ls, hist)
           ELSE EventOutcome(SuccessResponse(<<"Moved event">>), moved.lines,
                             recordHistory(hist, "move", "event", args.event_uid,
                                           Null, args.target_calendar))

\* SELECT * FROM templates WHERE name = ?
HasTemplate(tpls, name) == \E i \in 1..Len(tpls) : tpls[i].name = name

TemplateNamed(tpls, name) ==
  tpls[CHOOSE i \in 1..Len(tpls) : tpls[i].name = name]

\* case 'create_template': the INSERT throws on a name the table holds
\* (name TEXT UNIQUE); duration_minutes is stored in milliseconds
create_template(args, tpls) ==
  IF HasTemplate(tpls, args.name)
  THEN [ret |-> Caught(<<"UNIQUE constraint failed: templates.name">>), templates |-> tpls]
  ELSE [ret |-> SuccessResponse(<<"Created template">>),
        templates |-> Append(tpls,
          [name |-> args.name, summary |-> args.summary,
           duration |-> args.duration_minutes * MsPerMinute,
           calendar |-> args.calendar])]

\* case 'use_template': no calendarExists, no recordHistory; every throw
\* ends in the catch of the handler
use_template(args, cals, ls, hist, tpls) ==
  IF ~HasTemplate(tpls, args.template_name)
  THEN EventOutcome(Caught(<<"Template not found">>), ls, hist)
  ELSE IF ~args.start.parses
  THEN EventOutcome(Caught(CouldNotParse), ls, hist)
  ELSE LET template == TemplateNamed(tpls, args.template_name)
           calendarName == IF args.calendar # <<>> THEN args.calendar
                           ELSE IF template.calendar # <<>> THEN template.calendar
                           ELSE default_calendar
           start == args.start.date
           end == start + template.duration \div MsPerMinute
           created == createEvent(cals, ls, hist, calendarName,
                                  template.summary, start, end)
       IN  IF ~created.ok
           THEN EventOutcome(Caught(AppleScriptFailed),
                             ls, hist)
           ELSE EventOutcome(SuccessResponse(<<"Created event from template">>),
                             created.lines, hist)

\* case 'check_conflicts'; args.calendar is empty when it is not given
checkConflicts(args, cals, ls) ==
  LET parsed == parseDateRange(args.start, args.end)
  IN  IF ~parsed.ok THEN ErrorResponse(<<"Date parsing failed: ">> \o parsed.message)
      ELSE IF args.calendar # <<>> /\ ~calendarExists(cals, args.calendar)
      THEN ErrorResponse(<<"Calendar not found">>)
      ELSE LET found == IF args.calendar # <<>>
                        THEN listEvents(ls, args.calendar, parsed.start, parsed.end)
                        ELSE listAllEvents(ls, parsed.start, parsed.end)
               conflicts == findConflicts([start |-> parsed.start,
                                           end |-> parsed.end], found)
           IN  [isError |-> FALSE,
                text |-> IF Len(conflicts) = 0 THEN <<"FREE">>
                         ELSE <<"conflicts found">>,
                conflicts |-> conflicts, slots |-> <<>>]

\* findFreeTimeSchema: both texts non-empty, 1 <= duration_minutes <= 1440
findFreeTimeValid(args) ==
  /\ args.start_search.given /\ args.end_search.given
  /\ args.duration_minutes >= 1 /\ args.duration_minutes <= 1440

\* freeSlots.slice(0, 10)
slice10(arr) == SubSeq(arr, 1, IF Len(arr) < 10 THEN Len(arr) ELSE 10)

\* case 'find_free_time'; slots are the slots the answer lists
findFreeTime(args, ls) ==
  IF ~findFreeTimeValid(args) THEN ErrorResponse(<<"validation">>)
  ELSE LET parsed == parseDateRange(args.start_search, args.end_search)
       IN  IF ~parsed.ok THEN ErrorResponse(<<"Date parsing failed: ">> \o parsed.message)
           ELSE LET allEvents == listAllEvents(ls, parsed.start, parsed.end)
                    freeSlots == findFreeSlots(parsed.start, parsed.end,
                                               args.duration_minutes, allEvents,
                                               args.business_hours_only)
                IN  [isError |-> FALSE,
                     text |-> IF Len(freeSlots) = 0
                              THEN <<"No free time slots found">>
                              ELSE <<"Found">>,
                     conflicts |-> <<>>, slots |-> slice10(freeSlots)]

\* A number argument by its JavaScript value: a number, a text that is no
\* number ('abc': truthy, NaN in arithmetic) or undefined
Num(n) == [type |-> "number", value |-> n]

NotANumber == [type |-> "string", value |-> 0]

Undefined == [type |-> "undefined", value |-> 0]

NaN == [type |-> "NaN", value |-> 0]

\* durationMinutes * 60 * 1000, kept in minutes
durationOf(durationMinutes) ==
  IF durationMinutes.type = "number" THEN durationMinutes ELSE NaN

\* !durationMinutes || durationMinutes <= 0: 'abc' is truthy and
\* 'abc' <= 0 is false
durationRefused(durationMinutes) ==
  \/ durationMinutes.type = "undefined"
  \/ durationMinutes.type = "number" /\ durationMinutes.value <= 0

\* findFreeSlots with the duration the handler computed: with NaN the test
\* of the while loop is false at once
findFreeSlotsOf(rangeStart, rangeEnd, dur, evs, bho) ==
  IF dur.type = "number"
  THEN findFreeSlots(rangeStart, rangeEnd, dur.value, evs, bho)
  ELSE <<>>

\* The call of the engine a handler makes, if it makes one
NoEngineCall ==
  [reached |-> FALSE, startDate |-> 0, endDate |-> 0, duration |-> Num(0),
   events |-> <<>>]

EngineCall(start, end, dur, evs) ==
  [reached |-> TRUE, startDate |-> start, endDate |-> end, duration |-> dur,
   events |-> evs]

\* find_free_time: findFreeSlots(start, end, durationMs, allEvents, ...)
findFreeTimeEngine(args, ls) ==
  LET parsed == parseDateRange(args.start_search, args.end_search)
  IN  IF findFreeTimeValid(args) /\ parsed.ok
      THEN EngineCall(parsed.start, parsed.end, Num(args.duration_minutes),
                      listAllEvents(ls, parsed.start, parsed.end))
      ELSE NoEngineCall

\* suggest_optimal_time: findFreeSlots(start, end, durationMs, allEvents, false)
suggestOptimalTimeEngine(args, ls) ==
  LET parsed == parseDateRange(args.start_search, args.end_search)
  IN  IF ~durationRefused(args.duration_minutes) /\ parsed.ok
      THEN EngineCall(parsed.start, parsed.end,
                      durationOf(args.duration_minutes),
                      listAllEvents(ls, parsed.start, parsed.end))
      ELSE NoEngineCall

\* case 'suggest_optimal_time'
suggest_optimal_time(args, ls) ==
  LET parsed == parseDateRange(args.start_search, args.end_search)
      engine == suggestOptimalTimeEngine(args, ls)
      optimal == findOptimalSlot(
                   findFreeSlotsOf(engine.startDate, engine.endDate,
                                   engine.duration, engine.events, FALSE),
                   engine.events, args.preferred_hours)
  IN  IF durationRefused(args.duration_minutes)
      THEN ErrorResponse(<<"Duration must be a positive number">>)
      ELSE IF ~parsed.ok
      THEN ErrorResponse(<<"Date parsing failed: ">> \o parsed.message)
      ELSE IF optimal = Null
      THEN SuccessResponse(<<"No available time slots found">>)
      ELSE [isError |-> FALSE, text |-> <<"Suggested optimal time">>,
            conflicts |-> <<>>, slots |-> <<optimal>>]

\* tell calendar "...": an AppleScript error when Calendar holds none of
\* that name
listEventsThrows(cals, calendarName) == ~Holds(cals, calendarName)

\* analyze_schedule: calculateMeetingDensity(events, start, end)
analyzeScheduleEngine(args, cals, ls) ==
  LET parsed == parseDateRange(args.start, args.end)
  IN  IF ~parsed.ok THEN NoEngineCall
      ELSE IF args.calendar # <<>>
      THEN IF listEventsThrows(cals, args.calendar) THEN NoEngineCall
           ELSE EngineCall(parsed.start, parsed.end, Num(0),
                           listEvents(ls, args.calendar, parsed.start,
                                      parsed.end))
      ELSE EngineCall(parsed.start, parsed.end, Num(0),
                      listAllEvents(ls, parsed.start, parsed.end))

\* case 'analyze_schedule': the texts are the counts the answer shows
analyze_schedule(args, cals, ls, tzo) ==
  LET parsed == parseDateRange(args.start, args.end)
      engine == analyzeScheduleEngine(args, cals, ls)
      density == calculateMeetingDensity(engine.events,
                                         getTime(engine.startDate, 0),
                                         getTime(engine.endDate, 0))
  IN  IF ~parsed.ok THEN Caught(parsed.message)
      ELSE IF ~engine.reached THEN Caught(AppleScriptFailed)
      ELSE SuccessResponse(<<"Schedule Analysis", ToString(density.num),
                             ToString(density.den),
                             ToString(calculateTotalDuration(engine.events)),
                             ToString(Len(groupEventsByDay(engine.events, tzo)))>>)

\* data(obj): the object as JSON text
DataResponse(obj) ==
  [isError |-> FALSE, text |-> obj, conflicts |-> <<>>, slots |-> <<>>]

\* case 'list_calendars'
list_calendars(cals) == DataResponse(join(listCalendars(cals)))

\* The answer of the listing tools: the number of events listed
EventsResponse(found) ==
  IF Len(found) = 0 THEN SuccessResponse(<<"No events found">>)
  ELSE SuccessResponse(<<"Events: ", ToString(Len(found))>>)

\* case 'list_events': parseDateRange is called outside any try of its own
list_events(args, cals, ls) ==
  LET calendarName == IF args.calendar # <<>> THEN args.calendar
                      ELSE default_calendar
      parsed == parseDateRange(args.start, args.end)
  IN  IF ~parsed.ok THEN Caught(parsed.message)
      ELSE IF listEventsThrows(cals, calendarName) THEN Caught(AppleScriptFailed)
      ELSE EventsResponse(listEvents(ls, calendarName, parsed.start, parsed.end))

\* case 'list_all_events'
list_all_events(args, ls) ==
  LET parsed == parseDateRange(args.start, args.end)
  IN  IF ~parsed.ok THEN Caught(parsed.message)
      ELSE EventsResponse(listAllEvents(ls, parsed.start, parsed.end))

\* String.prototype.toLowerCase, piece by piece
toLowerCase(str) ==
  [i \in 1..Len(str) |-> IF str[i] = "Standup" THEN "standup"
                         ELSE IF str[i] = "Sync" THEN "sync" ELSE str[i]]

\* String.prototype.includes: the pieces of part are in str, side by side
includesText(str, part) ==
  \E i \in 0..(Len(str) - Len(part)) : SubSeq(str, i + 1, i + Len(part)) = part

RECURSIVE matching(_, _)
\* the events whose summary holds the keyword, whatever the case of the
\* summary (locations and descriptions are not stored here)
matching(ls, keyword) ==
  IF ls = <<>> THEN <<>>
  ELSE (IF includesText(toLowerCase(Head(ls).summary), toLowerCase(keyword))
        THEN <<Head(ls)>> ELSE <<>>) \o matching(Tail(ls), keyword)

\* searchEvents: listAllEvents, then the filter on the keyword
searchEvents(ls, start, end, keyword) ==
  listAllEvents(matching(ls, keyword), start, end)

\* case 'search_events'; a keyword that is not given is undefined, and
\* keyword.toLowerCase() throws a TypeError when searchEvents gets to it
search_events(args, ls) ==
  LET parsed == parseDateRange(args.start, args.end)
  IN  IF ~parsed.ok THEN Caught(parsed.message)
      ELSE IF ~args.keyword.given
      THEN Caught(<<"Cannot read properties of undefined">>)
      ELSE EventsResponse(searchEvents(ls, parsed.start, parsed.end,
                                       args.keyword.text))

\* case 'list_templates'
list_templates(tpls) ==
  IF Len(tpls) = 0 THEN SuccessResponse(<<"No templates saved.">>)
  ELSE SuccessResponse(<<"Templates: ", ToString(Len(tpls))>>)

RECURSIVE withoutTemplate(_, _)
\* DELETE FROM templates WHERE name = ?
withoutTemplate(tpls, name) ==
  IF tpls = <<>> THEN <<>>
  ELSE (IF Head(tpls).name = name THEN <<>> ELSE <<Head(tpls)>>)
         \o withoutTemplate(Tail(tpls), name)

\* case 'delete_template': the answer is the same whether a row went or not
delete_template(args, tpls) ==
  [ret |-> SuccessResponse(<<"Deleted template">>),
   templates |-> withoutTemplate(tpls, args.name)]

\* if (!args): isError with the text 'No arguments provided'
NoArgumentsResponse ==
  [isError |-> TRUE, text |-> <<"No arguments provided">>, conflicts |-> <<>>,
   slots |-> <<>>]

\* default: isError with the text 'Unknown tool: ' + name
UnknownToolResponse(name) ==
  [isError |-> TRUE, text |-> <<"Unknown tool: ", name>>, conflicts |-> <<>>,
   slots |-> <<>>]

-----------------------------------------------------------------------------
(* Defaults of the variables a specification does not use *)

Unused(vs) ==
  /\ ("slots" \in vs => slot1 = NoSlot /\ slot2 = NoSlot)
  /\ ("timeSlot" \in vs => timeSlot = NoSlot)
  /\ ("events" \in vs => events = <<>>)
  /\ ("range" \in vs => startDate = 0 /\ endDate = 0 /\ endMillis = 0 /\ duration = 0
                         /\ businessHoursOnly = FALSE)
  /\ ("optimal" \in vs => candidates = <<>> /\ preferences = Absent)
  /\ ("list" \in vs => lines = <<>> /\ calendar = "" /\ queryStartDate = 0
                        /\ queryEndDate = 0)
  /\ ("tz" \in vs => tzOffset = 0)
  /\ ("server" \in vs => calendars = <<>> /\ history = <<>> /\ request = Null)
  /\ ("store" \in vs => templates = <<>>)
  /\ ("loop" \in vs => cursor = 0 /\ accepted = <<>>)
  /\ ("inflight" \in vs => pending = <<>>)

Inputs == <<slot1, slot2, timeSlot, events, startDate, endDate, endMillis, duration,
            businessHoursOnly, candidates, preferences, lines, calendar,
            queryStartDate, queryEndDate, tzOffset, calendars, history,
            request, templates, cursor, accepted, pending>>

-----------------------------------------------------------------------------
(* hasOverlap applied to every pair of slots *)

InitOverlap ==
  /\ called = "init" /\ ret = Null
  /\ slot1 \in Slots /\ slot2 \in Slots
  /\ Unused({"store", "loop", "inflight", "tz", "server", "timeSlot", "events", "range", "optimal", "list"})

HasOverlapCall ==
  /\ called = "init"
  /\ called' = "hasOverlap"
  /\ ret' = hasOverlap(slot1, slot2)
  /\ UNCHANGED Inputs

NextOverlap == HasOverlapCall

SpecOverlap == InitOverlap /\ [][NextOverlap]_vars

-----------------------------------------------------------------------------
(* findConflicts and isFree applied to every slot and short event list *)

EventPool == {Event(u, s.start, s.end) : u \in Uids, s \in ProperSlots}

InitConflicts ==
  /\ called = "init" /\ ret = Null
  /\ timeSlot \in Slots
  /\ events \in SeqsUpTo(EventPool, MaxEvents)
  /\ Unused({"store", "loop", "inflight", "tz", "server", "slots", "range", "optimal", "list"})

FindConflictsCall ==
  /\ called = "init"
  /\ called' = "findConflicts"
  /\ ret' = findConflicts(timeSlot, events)
  /\ UNCHANGED Inputs

IsFreeCall ==
  /\ called = "init"
  /\ called' = "isFree"
  /\ ret' = isFree(timeSlot, events)
  /\ UNCHANGED Inputs

NextConflicts == FindConflictsCall \/ IsFreeCall

SpecConflicts == InitConflicts /\ [][NextConflicts]_vars

-----------------------------------------------------------------------------
(* findFreeSlots applied to search ranges around the business-hour bounds, *)
(* and to the one-day scenario with one event from 10:00 to 11:00          *)

RangeStarts == {HM(8, 0), HM(8, 15), HM(16, 15), HM(23, 30)}

BusyPool(t0) ==
  {Event("a", t0 + Grain * o, t0 + Grain * (o + l)) :
     o \in 0..MaxEvOff, l \in 1..MaxEvLen}

DayScenario ==
  /\ startDate = HM(0, 0) /\ endDate = HM(24, 0)
  /\ duration = 60
  /\ events = <<Event("a", HM(10, 0), HM(11, 0))>>

InitFreeSlots ==
  /\ called = "init" /\ ret = Null
  /\ \/ /\ startDate \in RangeStarts
        /\ endDate \in {startDate + Grain * k : k \in 0..MaxRange}
        /\ duration \in {Grain * k : k \in 0..MaxDuration}
        /\ events \in SeqsUpTo(BusyPool(startDate), MaxBusy)
     \/ DayScenario
  /\ endMillis = 0
  /\ businessHoursOnly \in BOOLEAN
  /\ Unused({"store", "loop", "inflight", "tz", "server", "slots", "timeSlot", "optimal", "list"})

FindFreeSlotsCall ==
  /\ called = "init"
  /\ called' = "findFreeSlots"
  /\ ret' = findFreeSlots(startDate, endDate, duration, events, businessHoursOnly)
  /\ LET after == findFreeSlotsObjects(startDate, endDate, duration, events,
                                       businessHoursOnly)
     IN  /\ startDate' = after.startDate
         /\ endDate' = after.endDate
         /\ events' = after.events
  /\ UNCHANGED <<slot1, slot2, timeSlot, endMillis, duration, businessHoursOnly,
                 candidates, preferences, lines, calendar, queryStartDate,
                 queryEndDate, tzOffset, calendars, history, request,
                 templates, cursor, accepted, pending>>

NextFreeSlots == FindFreeSlotsCall

SpecFreeSlots == InitFreeSlots /\ [][NextFreeSlots]_vars

-----------------------------------------------------------------------------
(* findOptimalSlot applied to short candidate lists *)

CandidatePool ==
  {[start |-> t, end |-> t + 60] : t \in {HM(9, 0), HM(10, 0), HM(14, 0)}}
    \cup {[start |-> HM(9, 30), end |-> HM(10, 0)]}

OptimalBusyPool == {Event("a", HM(9, 0), HM(10, 0)), Event("b", HM(13, 0), HM(15, 0))}

PreferencePool ==
  {Absent} \cup
  {[given |-> TRUE, hours |-> h] : h \in {<<>>, <<9>>, <<14>>, <<9, 14>>, <<11>>}}

InitOptimal ==
  /\ called = "init" /\ ret = Null
  /\ candidates \in SeqsUpTo(CandidatePool, MaxCandidates)
  /\ events \in SeqsUpTo(OptimalBusyPool, 1)
  /\ preferences \in PreferencePool
  /\ Unused({"store", "loop", "inflight", "tz", "server", "slots", "timeSlot", "range", "list"})

FindOptimalSlotCall ==
  /\ called = "init"
  /\ called' = "findOptimalSlot"
  /\ ret' = findOptimalSlot(candidates, events, preferences)
  /\ LET after == findOptimalSlotObjects(candidates, events, preferences)
     IN  /\ candidates' = after.candidates
         /\ events' = after.events
  /\ UNCHANGED <<slot1, slot2, timeSlot, startDate, endDate, endMillis, duration,
                 businessHoursOnly, preferences, lines, calendar, queryStartDate,
                 queryEndDate, tzOffset, calendars, history, request,
                 templates, cursor, accepted, pending>>

NextOptimal == FindOptimalSlotCall

SpecOptimal == InitOptimal /\ [][NextOptimal]_vars

-----------------------------------------------------------------------------
(* listEvents and listAllEvents applied to a backend of a few events *)

QueryStart == Day

CalendarNames == {"Work", "Home"}

RulePool ==
  {NoRule("absent"), NoRule("empty"), NoRule("blank"), NoRule("malformed"),
   Recurrence("rule", Day, 0), Recurrence("rule", Day, 2),
   Recurrence("rule", 7 * Day, 0)}

\* what the backend may hold for a range [qs, qe]; uids are given by position
LinePool(qs, qe) ==
  {[calendar |-> "Work", startDate |-> s, endDate |-> s + 60, recurrence |-> r] :
     s \in {qs - Day, qs, qs + 90, qe, qe + 30}, r \in RulePool}
  \cup
  {[calendar |-> "Home", startDate |-> s, endDate |-> s + 45, recurrence |-> r] :
     s \in {qs - Day, qs + 90},
     r \in {NoRule("empty"), NoRule("malformed"), Recurrence("rule", Day, 0)}}

UidOf(i) == <<"u1", "u2", "u3", "u4">>[i]

WithUids(ls) ==
  [i \in 1..Len(ls) |->
     [calendar |-> ls[i].calendar, uid |-> UidOf(i),
      startDate |-> ls[i].startDate, endDate |-> ls[i].endDate,
      recurrence |-> ls[i].recurrence]]

InitList ==
  /\ called = "init" /\ ret = Null
  /\ queryStartDate = QueryStart
  /\ queryEndDate \in {QueryStart + Day * k : k \in 0..MaxQueryDays}
  /\ calendar \in CalendarNames
  /\ lines \in {WithUids(ls) :
                  ls \in SeqsUpTo(LinePool(queryStartDate, queryEndDate), MaxLines)}
  /\ Unused({"store", "loop", "inflight", "tz", "server", "slots", "timeSlot", "events", "range", "optimal"})

ListEventsCall ==
  /\ called = "init"
  /\ called' = "listEvents"
  /\ ret' = listEvents(lines, calendar, queryStartDate, queryEndDate)
  /\ UNCHANGED Inputs

ListAllEventsCall ==
  /\ called = "init"
  /\ called' = "listAllEvents"
  /\ ret' = listAllEvents(lines, queryStartDate, queryEndDate)
  /\ UNCHANGED Inputs

NextList == ListEventsCall \/ ListAllEventsCall

SpecList == InitList /\ [][NextList]_vars

-----------------------------------------------------------------------------
(* listEvents and listAllEvents applied to one weekly event and a range of *)
(* three weeks                                                             *)

Week == 7 * Day

WeeklyQueryStart == (MaxBack + 1) * Day

InitWeekly ==
  /\ called = "init" /\ ret = Null
  /\ queryStartDate = WeeklyQueryStart
  /\ queryEndDate = WeeklyQueryStart + 3 * Week
  /\ calendar \in CalendarNames
  /\ \E a \in (0 - MaxBack)..MaxBack, b \in {0, 60}, dur \in {45, 60},
        c \in {0, 2}, cal \in CalendarNames :
        lines = <<[calendar |-> cal, uid |-> UidOf(1),
                   startDate |-> queryStartDate - a * Day - b,
                   endDate |-> queryStartDate - a * Day - b + dur,
                   recurrence |-> Recurrence("rule", Week, c)]>>
  /\ Unused({"store", "loop", "inflight", "tz", "server", "slots", "timeSlot", "events", "range", "optimal"})

SpecWeekly == InitWeekly /\ [][NextList]_vars

-----------------------------------------------------------------------------
(* The analytics applied to short event lists around midnight *)

TimezoneOffsets == {0, 300, 0 - 120}

AnalyticsPool ==
  {Event("a", Day + t, Day + t + d) :
     t \in {HM(0, 30), HM(20, 0), HM(23, 30), Day + HM(10, 0)}, d \in {45, 60}}

InitAnalytics ==
  /\ called = "init" /\ ret = Null
  /\ events \in SeqsUpTo(AnalyticsPool, MaxEvents)
  /\ startDate = Day
  /\ endDate \in {Day, Day + 1, 2 * Day - 1, 2 * Day, 3 * Day}
  /\ endMillis \in 0..MaxMillis
  /\ duration = 0 /\ businessHoursOnly = FALSE
  /\ tzOffset \in TimezoneOffsets
  /\ Unused({"store", "loop", "inflight", "server", "slots", "timeSlot", "optimal", "list"})

CalculateMeetingDensityCall ==
  /\ called = "init"
  /\ called' = "calculateMeetingDensity"
  /\ ret' = calculateMeetingDensity(events, getTime(startDate, 0),
                                    getTime(endDate, endMillis))
  /\ UNCHANGED Inputs

CalculateTotalDurationCall ==
  /\ called = "init"
  /\ called' = "calculateTotalDuration"
  /\ ret' = calculateTotalDuration(events)
  /\ UNCHANGED Inputs

GroupEventsByDayCall ==
  /\ called = "init"
  /\ called' = "groupEventsByDay"
  /\ ret' = groupEventsByDay(events, tzOffset)
  /\ UNCHANGED Inputs

NextAnalytics ==
  \/ CalculateMeetingDensityCall
  \/ CalculateTotalDurationCall
  \/ GroupEventsByDayCall

SpecAnalytics == InitAnalytics /\ [][NextAnalytics]_vars

-----------------------------------------------------------------------------
(* Every function of the engine applied to one set of arguments *)

InitEngine ==
  /\ called = "init" /\ ret = Null
  /\ events \in SeqsUpTo(OptimalBusyPool, 1)
  /\ candidates \in SeqsUpTo(CandidatePool, 2)
  /\ preferences \in {Absent, [given |-> TRUE, hours |-> <<14>>],
                       [given |-> TRUE, hours |-> <<9, 14>>]}
  /\ timeSlot = [start |-> HM(9, 30), end |-> HM(13, 30)]
  /\ startDate = HM(8, 0) /\ endDate \in {HM(10, 0), HM(15, 0)}
  /\ endMillis = 0
  /\ duration \in {30, 60}
  /\ businessHoursOnly \in BOOLEAN
  /\ tzOffset = 0
  /\ Unused({"store", "loop", "inflight", "server", "slots", "list"})

NextEngine ==
  \/ FindConflictsCall
  \/ IsFreeCall
  \/ FindFreeSlotsCall
  \/ FindOptimalSlotCall
  \/ CalculateMeetingDensityCall
  \/ CalculateTotalDurationCall
  \/ GroupEventsByDayCall

SpecEngine == InitEngine /\ [][NextEngine]_vars

-----------------------------------------------------------------------------
(* check_conflicts and find_free_time asked of a backend with a few events *)

StoredPool ==
  {[calendar |-> c, startDate |-> t, endDate |-> t + d, recurrence |-> r] :
     c \in {Name("Work"), Name("Home")}, t \in {HM(8, 0), HM(9, 30)},
     d \in {60, 120},
     r \in {NoRule("empty"), Recurrence("rule", Day, 0)}}

AskedStarts == {Gibberish, DateText(HM(9, 0)), DateText(HM(10, 0))}

AskedEnds(start) ==
  {NoText, Gibberish, DateText(HM(9, 0))}
    \cup {DateText(start.date + d) : d \in {30, 120}}

InitSchedule ==
  /\ called = "init" /\ ret = Null /\ request = Null
  /\ calendars = <<Name("Work"), Name("Home")>>
  /\ history = <<>>
  /\ lines \in {WithUids(ls) : ls \in SeqsUpTo(StoredPool, MaxLines)}
  /\ calendar = "" /\ queryStartDate = 0 /\ queryEndDate = 0
  /\ Unused({"store", "loop", "inflight", "tz", "slots", "timeSlot", "events", "range", "optimal"})

CheckConflictsCall ==
  /\ called = "init"
  /\ called' = "check_conflicts"
  /\ \E start \in AskedStarts :
       \E end \in AskedEnds(start), cal \in {<<>>, Name("Work"), Name("Home"), Name("Gone")} :
         /\ request' = [start |-> start, end |-> end, calendar |-> cal]
         /\ ret' = checkConflicts(request', calendars, lines)
  /\ UNCHANGED <<slot1, slot2, timeSlot, events, startDate, endDate, endMillis,
                 duration, businessHoursOnly, candidates, preferences, lines,
                 calendar, queryStartDate, queryEndDate, tzOffset, calendars,
                 history, templates, cursor, accepted, pending>>

\* The engine's parameters take the arguments of the call a handler makes
Engaged(engine) ==
  /\ startDate' = IF engine.reached THEN engine.startDate ELSE startDate
  /\ endDate' = IF engine.reached THEN engine.endDate ELSE endDate
  /\ duration' = IF engine.reached THEN engine.duration ELSE duration
  /\ events' = IF engine.reached THEN engine.events ELSE events

FindFreeTimeCall ==
  /\ called = "init"
  /\ called' = "find_free_time"
  /\ \E start \in AskedStarts :
       \E end \in AskedEnds(start), dur \in {0, 30, 60}, bho \in BOOLEAN :
         /\ request' = [start_search |-> start, end_search |-> end,
                        duration_minutes |-> dur, business_hours_only |-> bho]
         /\ ret' = findFreeTime(request', lines)
         /\ Engaged(findFreeTimeEngine(request', lines))
  /\ UNCHANGED <<slot1, slot2, timeSlot, endMillis, businessHoursOnly,
                 candidates, preferences, lines, calendar, queryStartDate,
                 queryEndDate, tzOffset, calendars, history, templates, cursor,
                 accepted, pending>>

AskedDurations == {Undefined, Num(0), Num(30), NotANumber}

SuggestOptimalTimeCall ==
  /\ called = "init"
  /\ called' = "suggest_optimal_time"
  /\ \E start \in AskedStarts :
       \E end \in {DateText(HM(9, 0)), DateText(start.date + 120)},
          dur \in AskedDurations,
          hours \in {Absent, [given |-> TRUE, hours |-> <<10>>]} :
         /\ request' = [start_search |-> start, end_search |-> end,
                        duration_minutes |-> dur, preferred_hours |-> hours]
         /\ ret' = suggest_optimal_time(request', lines)
         /\ Engaged(suggestOptimalTimeEngine(request', lines))
  /\ UNCHANGED <<slot1, slot2, timeSlot, endMillis, businessHoursOnly,
                 candidates, preferences, lines, calendar, queryStartDate,
                 queryEndDate, tzOffset, calendars, history, templates, cursor,
                 accepted, pending>>

AnalyzeScheduleCall ==
  /\ called = "init"
  /\ called' = "analyze_schedule"
  /\ \E start \in AskedStarts :
       \E end \in {Gibberish, DateText(HM(9, 0)), DateText(start.date + 120)},
          cal \in {<<>>, Name("Work"), Name("Gone")} :
         /\ request' = [start |-> start, end |-> end, calendar |-> cal]
         /\ ret' = analyze_schedule(request', calendars, lines, tzOffset)
         /\ Engaged(analyzeScheduleEngine(request', calendars, lines))
  /\ UNCHANGED <<slot1, slot2, timeSlot, endMillis, businessHoursOnly,
                 candidates, preferences, lines, calendar, queryStartDate,
                 queryEndDate, tzOffset, calendars, history, templates, cursor,
                 accepted, pending>>

NextSchedule ==
  \/ CheckConflictsCall \/ FindFreeTimeCall
  \/ SuggestOptimalTimeCall \/ AnalyzeScheduleCall

SpecSchedule == InitSchedule /\ [][NextSchedule]_vars

-----------------------------------------------------------------------------
(* create_calendar, delete_calendar and rename_calendar, called in any order *)

AskedNames == {<<>>, Name("Work"), Name("Home"), <<"Work", Comma, "Home">>}

InitCalendars ==
  /\ called = "init" /\ ret = Null /\ request = Null
  /\ calendars = <<>> /\ history = <<>>
  /\ Unused({"store", "loop", "inflight", "tz", "slots", "timeSlot", "events", "range", "optimal", "list"})

Handled(tool, args, outcome) ==
  /\ called' = tool
  /\ request' = args
  /\ ret' = outcome.ret
  /\ calendars' = outcome.calendars
  /\ history' = outcome.history
  /\ UNCHANGED <<slot1, slot2, timeSlot, events, startDate, endDate, endMillis,
                 duration, businessHoursOnly, candidates, preferences, lines,
                 calendar, queryStartDate, queryEndDate, tzOffset, templates,
                 cursor, accepted, pending>>

CreateCalendarCall ==
  /\ Len(calendars) < MaxCalendars /\ Len(history) < MaxHistory
  /\ \E name \in AskedNames :
       Handled("create_calendar", [name |-> name],
               create_calendar([name |-> name], calendars, history))

DeleteCalendarCall ==
  /\ Len(history) < MaxHistory
  /\ \E name \in AskedNames :
       Handled("delete_calendar", [name |-> name],
               delete_calendar([name |-> name], calendars, history))

RenameCalendarCall ==
  /\ Len(history) < MaxHistory
  /\ \E oldName \in AskedNames, newName \in AskedNames :
       Handled("rename_calendar", [old_name |-> oldName, new_name |-> newName],
               rename_calendar([old_name |-> oldName, new_name |-> newName],
                               calendars, history))

NextCalendars == CreateCalendarCall \/ DeleteCalendarCall \/ RenameCalendarCall

SpecCalendars == InitCalendars /\ [][NextCalendars]_vars

-----------------------------------------------------------------------------
(* The event and template tools, called in any order *)

Standup == Name("Standup")

AskedUids == {<<>>, EventUid(1), EventUid(2)}

InitEvents ==
  /\ called = "init" /\ ret = Null /\ request = Null
  /\ calendars \in {<<Name("life")>>, <<<<"Work", Comma, "life">>>>}
  /\ history = <<>> /\ templates = <<>>
  /\ Unused({"loop", "inflight", "tz", "slots", "timeSlot", "events", "range",
             "optimal", "list"})

HandledEvent(tool, args, outcome) ==
  /\ called' = tool
  /\ request' = args
  /\ ret' = outcome.ret
  /\ lines' = outcome.lines
  /\ history' = outcome.history
  /\ UNCHANGED <<slot1, slot2, timeSlot, events, startDate, endDate, endMillis,
                 duration, businessHoursOnly, candidates, preferences, calendar,
                 queryStartDate, queryEndDate, tzOffset, calendars, templates,
                 cursor, accepted, pending>>

Room == Len(lines) < MaxStored /\ Len(history) < MaxRows

CreateEventCall ==
  /\ Room
  /\ \E cal \in {<<>>, Name("Work")}, summary \in {<<>>, Standup},
        start \in {Gibberish, DateText(HM(9, 0))},
        end \in {NoText, DateText(HM(9, 0))} :
       LET args == [calendar |-> cal, summary |-> summary, start |-> start,
                    end |-> end]
       IN  HandledEvent("create_event", args,
                        create_event(args, calendars, lines, history))

UpdateEventCall ==
  /\ Room
  /\ \E uid \in {<<>>, EventUid(1)}, summary \in {NoField, Field(Name("Sync"))},
        start \in {NoText, Gibberish, DateText(HM(11, 0))} :
       LET args == [event_uid |-> uid, summary |-> summary, start |-> start,
                    end |-> NoText]
       IN  HandledEvent("update_event", args,
                        update_event(args, lines, history))

DeleteEventCall ==
  /\ Room
  /\ \E uid \in AskedUids :
       HandledEvent("delete_event", [event_uid |-> uid],
                    delete_event([event_uid |-> uid], lines, history))

MoveEventCall ==
  /\ Room
  /\ \E uid \in {<<>>, EventUid(1)}, target \in {<<>>, Name("life"), Name("Work")} :
       LET args == [event_uid |-> uid, target_calendar |-> target]
       IN  HandledEvent("move_event", args,
                        move_event(args, calendars, lines, history))

CreateTemplateCall ==
  /\ Len(templates) <= MaxTemplates
  /\ LET args == [name |-> Name("standup"), summary |-> Standup,
                  duration_minutes |-> 30, calendar |-> <<>>]
         outcome == create_template(args, templates)
     IN  /\ called' = "create_template"
         /\ request' = args
         /\ ret' = outcome.ret
         /\ templates' = outcome.templates
  /\ UNCHANGED <<slot1, slot2, timeSlot, events, startDate, endDate, endMillis,
                 duration, businessHoursOnly, candidates, preferences, lines,
                 calendar, queryStartDate, queryEndDate, tzOffset, calendars,
                 history, cursor, accepted, pending>>

UseTemplateCall ==
  /\ Room
  /\ \E name \in {Name("standup"), Name("retro")},
        start \in {Gibberish, DateText(HM(9, 0))}, cal \in {<<>>, Name("Work")} :
       LET args == [template_name |-> name, start |-> start, calendar |-> cal]
       IN  HandledEvent("use_template", args,
                        use_template(args, calendars, lines, history, templates))

NextEvents ==
  \/ CreateEventCall \/ UpdateEventCall \/ DeleteEventCall \/ MoveEventCall
  \/ CreateTemplateCall \/ UseTemplateCall

SpecEvents == InitEvents /\ [][NextEvents]_vars

-----------------------------------------------------------------------------
(* delete_event called over and over: each call with a uid writes a row *)

InitLog ==
  /\ called = "init" /\ ret = Null /\ request = Null
  /\ calendars = <<Name("life")>>
  /\ history = <<>>
  /\ Unused({"store", "loop", "inflight", "tz", "slots", "timeSlot", "events",
             "range", "optimal", "list"})

DeleteEventLogged ==
  /\ Len(history) < MaxLog
  /\ \E uid \in {<<>>, EventUid(1)} :
       HandledEvent("delete_event", [event_uid |-> uid],
                    delete_event([event_uid |-> uid], lines, history))

NextLog == DeleteEventLogged

SpecLog == InitLog /\ [][NextLog]_vars

-----------------------------------------------------------------------------
(* Every tool of the server, and the calls that name no tool or bring no   *)
(* arguments, in any order                                                 *)

\* An event of the backend and a row of the templates table
StoredStandup ==
  [calendar |-> Name("life"), uid |-> EventUid(1), summary |-> Standup,
   startDate |-> HM(9, 0), endDate |-> HM(10, 0), recurrence |-> NoRule("empty")]

StandupTemplate ==
  [name |-> Name("standup"), summary |-> Standup, duration |-> 30 * MsPerMinute,
   calendar |-> <<>>]

InitTools ==
  /\ called = "init" /\ ret = Null /\ request = Null
  /\ calendars \in {<<Name("life")>>, <<<<"Work", Comma, "life">>>>}
  /\ lines \in {<<>>, <<StoredStandup>>}
  /\ templates \in {<<>>, <<StandupTemplate>>}
  /\ history = <<>>
  /\ calendar = "" /\ queryStartDate = 0 /\ queryEndDate = 0
  /\ Unused({"loop", "inflight", "tz", "slots", "timeSlot", "events", "range",
             "optimal"})

\* One call that changes nothing in the backend or the stores
Answered(tool, args, response) ==
  /\ called' = tool
  /\ request' = args
  /\ ret' = response
  /\ UNCHANGED <<slot1, slot2, timeSlot, events, startDate, endDate, endMillis,
                 duration, businessHoursOnly, candidates, preferences, lines,
                 calendar, queryStartDate, queryEndDate, tzOffset, calendars,
                 history, templates, cursor, accepted, pending>>

ToolStarts == {Gibberish, DateText(HM(9, 0))}

ToolEnds == {NoText, DateText(HM(9, 0))}

ListCalendarsTool ==
  /\ called = "init"
  /\ Answered("list_calendars", <<>>, list_calendars(calendars))

ListEventsTool ==
  /\ called = "init"
  /\ \E cal \in {<<>>, Name("Work")}, start \in ToolStarts, end \in ToolEnds :
       LET args == [calendar |-> cal, start |-> start, end |-> end]
       IN  Answered("list_events", args, list_events(args, calendars, lines))

ListAllEventsTool ==
  /\ called = "init"
  /\ \E start \in ToolStarts, end \in ToolEnds :
       LET args == [start |-> start, end |-> end]
       IN  Answered("list_all_events", args, list_all_events(args, lines))

SearchEventsTool ==
  /\ called = "init"
  /\ \E keyword \in {NoField, Field(Name("standup"))}, start \in ToolStarts,
        end \in ToolEnds :
       LET args == [keyword |-> keyword, start |-> start, end |-> end]
       IN  Answered("search_events", args, search_events(args, lines))

CheckConflictsTool ==
  /\ called = "init"
  /\ \E cal \in {<<>>, Name("Work")}, start \in ToolStarts, end \in ToolEnds :
       LET args == [calendar |-> cal, start |-> start, end |-> end]
       IN  Answered("check_conflicts", args, checkConflicts(args, calendars, lines))

FindFreeTimeTool ==
  /\ called = "init"
  /\ \E start \in ToolStarts, end \in {NoText, DateText(HM(10, 0))},
        dur \in {0, 30} :
       LET args == [start_search |-> start, end_search |-> end,
                    duration_minutes |-> dur, business_hours_only |-> FALSE]
       IN  Answered("find_free_time", args, findFreeTime(args, lines))

SuggestOptimalTimeTool ==
  /\ called = "init"
  /\ \E start \in ToolStarts, end \in {NoText, DateText(HM(10, 0))},
        dur \in {Num(0), Num(30)} :
       LET args == [start_search |-> start, end_search |-> end,
                    duration_minutes |-> dur, preferred_hours |-> Absent]
       IN  Answered("suggest_optimal_time", args,
                    suggest_optimal_time(args, lines))

AnalyzeScheduleTool ==
  /\ called = "init"
  /\ \E cal \in {<<>>, Name("Work")}, start \in ToolStarts, end \in ToolEnds :
       LET args == [calendar |-> cal, start |-> start, end |-> end]
       IN  Answered("analyze_schedule", args,
                    analyze_schedule(args, calendars, lines, tzOffset))

ListTemplatesTool ==
  /\ called = "init"
  /\ Answered("list_templates", <<>>, list_templates(templates))

DeleteTemplateTool ==
  LET args == [name |-> Name("standup")]
      outcome == delete_template(args, templates)
  IN  /\ called = "init"
      /\ called' = "delete_template"
      /\ request' = args
      /\ ret' = outcome.ret
      /\ templates' = outcome.templates
      /\ UNCHANGED <<slot1, slot2, timeSlot, events, startDate, endDate,
                     endMillis, duration, businessHoursOnly, candidates,
                     preferences, lines, calendar, queryStartDate,
                     queryEndDate, tzOffset, calendars, history, cursor,
                     accepted, pending>>

\* a name the switch has no case for
UnknownTool ==
  /\ called = "init"
  /\ Answered("undo", <<>>, UnknownToolResponse("undo"))

\* request.params.arguments is missing: the name plays no part
NoArguments ==
  /\ called = "init"
  /\ \E tool \in {"list_calendars", "create_event", "undo"} :
       Answered(tool, Null, NoArgumentsResponse)

\* The tools that change the backend or a store, called once
CreateCalendarTool == called = "init" /\ CreateCalendarCall

DeleteCalendarTool == called = "init" /\ DeleteCalendarCall

RenameCalendarTool == called = "init" /\ RenameCalendarCall

CreateEventTool == called = "init" /\ CreateEventCall

UpdateEventTool == called = "init" /\ UpdateEventCall

DeleteEventTool == called = "init" /\ DeleteEventCall

MoveEventTool == called = "init" /\ MoveEventCall

CreateTemplateTool == called = "init" /\ CreateTemplateCall

UseTemplateTool == called = "init" /\ UseTemplateCall

NextTools ==
  \/ ListCalendarsTool \/ CreateCalendarTool \/ DeleteCalendarTool
  \/ RenameCalendarTool
  \/ CreateEventTool \/ ListEventsTool \/ ListAllEventsTool \/ SearchEventsTool
  \/ UpdateEventTool \/ DeleteEventTool \/ MoveEventTool
  \/ FindFreeTimeTool \/ CheckConflictsTool \/ SuggestOptimalTimeTool
  \/ CreateTemplateTool \/ UseTemplateTool \/ ListTemplatesTool
  \/ DeleteTemplateTool
  \/ AnalyzeScheduleTool \/ UnknownTool \/ NoArguments

SpecTools == InitTools /\ [][NextTools]_vars

-----------------------------------------------------------------------------
(* findFreeSlots followed through its while loop, one iteration at a time: *)
(* cursor is currentTime and accepted is freeSlots                         *)

LoopStarts == {HM(8, 0), HM(16, 15)}

\* const freeSlots = []; let currentTime = new Date(startDate)
InitLoop ==
  /\ called = "while" /\ ret = <<>>
  /\ startDate \in LoopStarts
  /\ endDate \in {startDate + Grain * k : k \in 0..MaxRange}
  /\ duration \in {Grain * k : k \in 0..MaxDuration}
  /\ events \in SeqsUpTo(BusyPool(startDate), MaxLoopBusy)
  /\ businessHoursOnly \in BOOLEAN
  /\ endMillis = 0
  /\ cursor = startDate /\ accepted = <<>>
  /\ Unused({"store", "inflight", "tz", "server", "slots", "timeSlot",
             "optimal", "list"})

LoopFixed ==
  <<slot1, slot2, timeSlot, events, startDate, endDate, endMillis, duration,
    businessHoursOnly, candidates, preferences, lines, calendar,
    queryStartDate, queryEndDate, tzOffset, calendars, history, request,
    templates, pending>>

\* a candidate outside business hours stays unevaluated
SkipCandidate_stay ==
  /\ called = "while"
  /\ fits(cursor, duration, endDate)
  /\ businessHoursOnly /\ outsideBusinessHours(getHours(cursor))
  /\ cursor' = cursor
  /\ UNCHANGED <<called, ret, accepted>>
  /\ UNCHANGED LoopFixed

\* if (hour < 9 || hour >= 17) { currentTime = ... + step; continue; }
SkipCandidate ==
  /\ called = "while"
  /\ fits(cursor, duration, endDate)
  /\ businessHoursOnly /\ outsideBusinessHours(getHours(cursor))
  /\ cursor' = advance(cursor)
  /\ UNCHANGED <<called, ret, accepted>>
  /\ UNCHANGED LoopFixed

\* if (isFree(slot, events)) freeSlots.push(slot); currentTime = ... + step
EvaluateCandidate ==
  /\ called = "while"
  /\ fits(cursor, duration, endDate)
  /\ ~(businessHoursOnly /\ outsideBusinessHours(getHours(cursor)))
  /\ LET slot == [start |-> cursor, end |-> cursor + duration]
     IN  accepted' = IF isFree(slot, events) THEN Append(accepted, slot)
                     ELSE accepted
  /\ cursor' = advance(cursor)
  /\ UNCHANGED <<called, ret>>
  /\ UNCHANGED LoopFixed

\* the loop condition fails: return freeSlots
ReturnFreeSlots ==
  /\ called = "while"
  /\ ~fits(cursor, duration, endDate)
  /\ called' = "return"
  /\ ret' = accepted
  /\ UNCHANGED <<cursor, accepted>>
  /\ UNCHANGED LoopFixed

NextLoop == SkipCandidate \/ EvaluateCandidate \/ ReturnFreeSlots

SpecLoop == InitLoop /\ [][NextLoop]_vars

\* the loop is synchronous code of one thread: a step that can be taken is
\* taken
SpecLoopFair == SpecLoop /\ WF_vars(NextLoop)

-----------------------------------------------------------------------------
(* create_calendar and rename_calendar requests handled side by side: a    *)
(* handler runs up to its next await, and the handlers of other requests   *)
(* run while it waits. A call in pending is at the await named by its at   *)
(* field; during holds the calls that were in flight when it arrived.      *)

ConcurrentNames == {Name("Work"), Name("Home")}

InitConcurrent ==
  /\ called = "init" /\ ret = Null /\ request = Null
  /\ calendars \in {<<>>, <<Name("Work")>>}
  /\ history = <<>>
  /\ pending = <<>>
  /\ Unused({"store", "loop", "tz", "slots", "timeSlot", "events", "range",
             "optimal", "list"})

ConcurrentFixed ==
  <<slot1, slot2, timeSlot, events, startDate, endDate, endMillis, duration,
    businessHoursOnly, candidates, preferences, lines, calendar,
    queryStartDate, queryEndDate, tzOffset, templates, cursor, accepted>>

InFlight == {i \in 1..Len(pending) : pending[i].at # "returned"}

\* The handler of call i goes on to its next await
Awaits(i, await) ==
  /\ pending' = [pending EXCEPT ![i].at = await]
  /\ called' = pending[i].tool
  /\ request' = pending[i].args
  /\ UNCHANGED ret

\* The handler of call i returns its response
Returns(i, response) ==
  /\ pending' = [pending EXCEPT ![i].at = "returned", ![i].response = response]
  /\ called' = pending[i].tool
  /\ request' = pending[i].args
  /\ ret' = response

\* A request arrives and its handler runs up to its first await
Arrives(tool, args, valid, refusal) ==
  /\ pending' = Append(pending,
       [tool |-> tool, args |-> args,
        at |-> IF valid THEN "calendarExists" ELSE "returned",
        response |-> IF valid THEN Null ELSE ErrorResponse(refusal),
        during |-> InFlight])
  /\ called' = tool
  /\ request' = args
  /\ ret' = IF valid THEN ret ELSE ErrorResponse(refusal)
  /\ UNCHANGED <<calendars, history>>
  /\ UNCHANGED ConcurrentFixed

\* case 'create_calendar' up to await calendarOps.calendarExists(name)
CreateCalendarArrives ==
  /\ Len(pending) < MaxPending
  /\ \E name \in ConcurrentNames :
       Arrives("create_calendar", [name |-> name], name # <<>>,
               <<"validation">>)

\* case 'rename_calendar' up to await calendarOps.calendarExists(oldName)
RenameCalendarArrives ==
  /\ Len(pending) < MaxPending
  /\ \E oldName \in ConcurrentNames, newName \in ConcurrentNames :
       Arrives("rename_calendar", [old_name |-> oldName, new_name |-> newName],
               oldName # <<>> /\ newName # <<>>,
               <<"Both old_name and new_name are required">>)

\* create_calendar: calendarExists(name) answers
CreateCalendarChecked ==
  \E i \in 1..Len(pending) :
    /\ pending[i].tool = "create_calendar" /\ pending[i].at = "calendarExists"
    /\ IF calendarExists(calendars, pending[i].args.name)
       THEN Returns(i, ErrorResponse(<<"already exists">>))
       ELSE Awaits(i, "createCalendar")
    /\ UNCHANGED <<calendars, history>>
    /\ UNCHANGED ConcurrentFixed

\* create_calendar: createCalendar(name) is done, then recordHistory and
\* the success
CreateCalendarMade ==
  \E i \in 1..Len(pending) :
    /\ pending[i].tool = "create_calendar" /\ pending[i].at = "createCalendar"
    /\ LET name == pending[i].args.name
       IN  /\ calendars' = createCalendar(calendars, name).calendars
           /\ history' = recordHistory(history, "create", "calendar", name,
                                       Null, name)
    /\ Returns(i, SuccessResponse(<<"Created calendar">>))
    /\ UNCHANGED ConcurrentFixed

\* rename_calendar: calendarExists(oldName) answers
RenameCalendarOldChecked ==
  \E i \in 1..Len(pending) :
    /\ pending[i].tool = "rename_calendar" /\ pending[i].at = "calendarExists"
    /\ IF ~calendarExists(calendars, pending[i].args.old_name)
       THEN Returns(i, ErrorResponse(<<"not found">>))
       ELSE Awaits(i, "calendarExists(newName)")
    /\ UNCHANGED <<calendars, history>>
    /\ UNCHANGED ConcurrentFixed

\* rename_calendar: calendarExists(newName) answers; the history row is
\* written before renameCalendar is awaited
RenameCalendarNewChecked ==
  \E i \in 1..Len(pending) :
    /\ pending[i].tool = "rename_calendar"
    /\ pending[i].at = "calendarExists(newName)"
    /\ IF calendarExists(calendars, pending[i].args.new_name)
       THEN /\ Returns(i, ErrorResponse(<<"already exists">>))
            /\ UNCHANGED history
       ELSE /\ Awaits(i, "renameCalendar")
            /\ history' = recordHistory(history, "rename", "calendar",
                                        pending[i].args.old_name,
                                        pending[i].args.old_name,
                                        pending[i].args.new_name)
    /\ UNCHANGED calendars
    /\ UNCHANGED ConcurrentFixed

\* rename_calendar: renameCalendar(oldName, newName) is done or throws
RenameCalendarDone ==
  \E i \in 1..Len(pending) :
    /\ pending[i].tool = "rename_calendar" /\ pending[i].at = "renameCalendar"
    /\ LET renamed == renameCalendar(calendars, pending[i].args.old_name,
                                     pending[i].args.new_name)
       IN  /\ calendars' = renamed.calendars
           /\ Returns(i, IF renamed.ok
                         THEN SuccessResponse(<<"Renamed calendar">>)
                         ELSE Caught(AppleScriptFailed))
    /\ UNCHANGED history
    /\ UNCHANGED ConcurrentFixed

NextConcurrent ==
  \/ CreateCalendarArrives \/ RenameCalendarArrives
  \/ CreateCalendarChecked \/ CreateCalendarMade
  \/ RenameCalendarOldChecked \/ RenameCalendarNewChecked
  \/ RenameCalendarDone

SpecConcurrent == InitConcurrent /\ [][NextConcurrent]_vars

-----------------------------------------------------------------------------
(* C4: hasOverlap(a, b) is true exactly when a.start < b.end and           *)
(* b.start < a.end, it gives the same result for (b, a), and two touching  *)
(* slots (a.end = b.start) never overlap.                                  *)
OverlapIffSymmetricTouching ==
  called = "hasOverlap" =>
    /\ ret = (slot1.start < slot2.end /\ slot2.start < slot1.end)
    /\ ret = hasOverlap(slot2, slot1)
    /\ (slot1.end = slot2.start => ret = FALSE)

\* two touching slots of positive length have been compared
OverlapTouchingSeen ==
  /\ called = "hasOverlap"
  /\ slot1.start < slot1.end /\ slot1.end = slot2.start
  /\ slot2.start < slot2.end
  /\ ret = FALSE

(* C5 as stated: a zero-length slot (start = end) overlaps no slot at all  *)
(* under hasOverlap, itself included.                                      *)
ZeroLengthOverlapsNothing ==
  (called = "hasOverlap" /\ (slot1.start = slot1.end \/ slot2.start = slot2.end))
    => ret = FALSE

(* C5 amended: a zero-length slot [t, t) overlaps a slot b exactly when    *)
(* b.start < t < b.end; it overlaps neither itself nor any other           *)
(* zero-length slot.                                                       *)
ZeroLengthOverlapsOnlyInside ==
  (called = "hasOverlap" /\ slot1.start = slot1.end) =>
    /\ ret = (slot2.start < slot1.start /\ slot1.start < slot2.end)
    /\ (slot2.start = slot2.end => ret = FALSE)
    /\ hasOverlap(slot1, slot1) = FALSE

\* a zero-length slot strictly inside another slot has been compared with it
ZeroLengthInsideSeen ==
  /\ called = "hasOverlap"
  /\ slot1.start = slot1.end
  /\ slot2.start < slot1.start /\ slot1.start < slot2.end
  /\ ret = TRUE

-----------------------------------------------------------------------------
(* The overlap relation of the interval model, written out on instants *)
Overlapping(s, e, s2, e2) == s < e2 /\ s2 < e

FreeAgainst(s, e, evs) ==
  \A j \in 1..Len(evs) : ~Overlapping(s, e, evs[j].startDate, evs[j].endDate)

HourOf(t) == (t \div 60) % 24

(* C1: every slot returned by findFreeSlots overlaps no occurrence of the  *)
(* list passed to it, and when businessHoursOnly is set its start hour h   *)
(* satisfies 9 <= h < 17.                                                  *)
FreeSlotSoundness ==
  called = "findFreeSlots" =>
    \A i \in 1..Len(ret) :
      /\ FreeAgainst(ret[i].start, ret[i].end, events)
      /\ (businessHoursOnly =>
            (9 <= HourOf(ret[i].start) /\ HourOf(ret[i].start) < 17))

\* a business-hours search over a range that runs past 17:00, with an event
\* in it, has returned a slot
FreeSlotSoundnessSeen ==
  /\ called = "findFreeSlots"
  /\ businessHoursOnly /\ events # <<>>
  /\ startDate = HM(16, 15) /\ endDate >= HM(17, 30) /\ duration = Grain
  /\ Len(ret) > 0
  /\ Len(ret) < ((endDate - startDate - duration) \div step) + 1

IsReturned(s, e) == \E i \in 1..Len(ret) : ret[i] = [start |-> s, end |-> e]

(* C2: a candidate [startDate + k*30min, startDate + k*30min + duration)   *)
(* with candidateStart + duration <= endDate is returned if and only if it *)
(* overlaps no occurrence (and, with businessHoursOnly, its start hour is  *)
(* in [9,17)); in the one-day scenario with an event 10:00-11:00 and       *)
(* 60-minute slots, 09:00-10:00 and 11:00-12:00 are returned and           *)
(* 09:30-10:30, 10:00-11:00 and 10:30-11:30 are not.                       *)
FreeSlotExactness ==
  called = "findFreeSlots" =>
    /\ \A k \in 0..((endDate - startDate) \div step + 1) :
         LET cs == startDate + k * step
         IN  cs + duration <= endDate =>
               (IsReturned(cs, cs + duration) <=>
                  /\ FreeAgainst(cs, cs + duration, events)
                  /\ (businessHoursOnly => (9 <= HourOf(cs) /\ HourOf(cs) < 17)))
    /\ (DayScenario /\ ~businessHoursOnly =>
         /\ IsReturned(HM(9, 0), HM(10, 0))
         /\ IsReturned(HM(11, 0), HM(12, 0))
         /\ ~IsReturned(HM(9, 30), HM(10, 30))
         /\ ~IsReturned(HM(10, 0), HM(11, 0))
         /\ ~IsReturned(HM(10, 30), HM(11, 30)))

\* the one-day scenario has been searched and 09:00-10:00 was returned
DayScenarioSeen ==
  /\ called = "findFreeSlots"
  /\ DayScenario /\ ~businessHoursOnly
  /\ IsReturned(HM(9, 0), HM(10, 0))
  /\ IsReturned(HM(23, 0), HM(24, 0))

(* C3: with an empty occurrence list, businessHoursOnly off and            *)
(* 0 < duration <= endDate - startDate, findFreeSlots returns exactly      *)
(* floor((endDate - startDate - duration) / 30min) + 1 slots; when         *)
(* duration exceeds the range length it returns the empty list.            *)
FreeSlotCount ==
  (called = "findFreeSlots" /\ events = <<>> /\ ~businessHoursOnly) =>
    /\ (0 < duration /\ duration <= endDate - startDate =>
          Len(ret) = ((endDate - startDate - duration) \div step) + 1)
    /\ (duration > endDate - startDate => ret = <<>>)

\* an empty calendar has been searched with a duration and a range that are
\* not multiples of 30 minutes, and more than one slot was returned
FreeSlotCountSeen ==
  /\ called = "findFreeSlots" /\ events = <<>> /\ ~businessHoursOnly
  /\ duration = Grain /\ endDate - startDate = 5 * Grain
  /\ Len(ret) = 3

(* C6: findConflicts(slot, events) returns exactly the events whose        *)
(* [startDate, endDate) overlaps slot, in their input order with nothing   *)
(* added or duplicated, and isFree(slot, events) is true exactly when that *)
(* result is empty.                                                        *)
ConflictsExact ==
  /\ called = "findConflicts" =>
       ret = SelectSeq(events,
               LAMBDA e : Overlapping(timeSlot.start, timeSlot.end,
                                      e.startDate, e.endDate))
  /\ called = "isFree" =>
       /\ ret = FreeAgainst(timeSlot.start, timeSlot.end, events)
       /\ ret = (findConflicts(timeSlot, events) = <<>>)

\* two different events conflict with the slot and a third, first in the
\* list, does not
ConflictsSeen ==
  /\ called = "findConflicts"
  /\ Len(events) >= 2 /\ Len(ret) = 2 /\ ret[1] # ret[2]
  /\ ret[1] = events[Len(events) - 1] /\ ret[2] = events[Len(events)]

-----------------------------------------------------------------------------
FreeIndexes == {i \in 1..Len(candidates) :
                  FreeAgainst(candidates[i].start, candidates[i].end, events)}

Preferred(i) == \E j \in 1..Len(preferences.hours) :
                   preferences.hours[j] = HourOf(candidates[i].start)

\* the free candidate that comes first among those with the highest score
BestIndex ==
  CHOOSE i \in FreeIndexes :
    \A j \in FreeIndexes :
      \/ (Preferred(i) /\ ~Preferred(j))
      \/ ((Preferred(i) <=> Preferred(j)) /\ i <= j)

FirstFreeIndex == CHOOSE i \in FreeIndexes : \A j \in FreeIndexes : i <= j

(* C7: with a non-empty preferredHours list and at least two free          *)
(* candidates, findOptimalSlot returns the earliest-in-input-order         *)
(* candidate among those with the highest score (1 when the start hour is  *)
(* in preferredHours, else 0); candidates [9:00, 14:00] with preferred     *)
(* hours [9, 14] yield 9:00, and when no candidate's hour is preferred the *)
(* first free candidate is returned.                                       *)
OptimalTieBreak ==
  (/\ called = "findOptimalSlot"
   /\ preferences.given /\ Len(preferences.hours) > 0
   /\ Cardinality(FreeIndexes) >= 2) =>
    /\ ret = candidates[BestIndex]
    /\ ((\A i \in FreeIndexes : ~Preferred(i)) => ret = candidates[FirstFreeIndex])
    /\ ((/\ Len(candidates) = 2
         /\ candidates[1].start = HM(9, 0) /\ candidates[2].start = HM(14, 0)
         /\ preferences.hours = <<9, 14>>) => ret = candidates[1])

\* candidates [10:00, 9:00, 14:00], all free, with preferred hours [9, 14]:
\* the 9:00 candidate was returned
OptimalTieBreakSeen ==
  /\ called = "findOptimalSlot"
  /\ Len(candidates) = 3 /\ FreeIndexes = {1, 2, 3}
  /\ candidates[1].start = HM(10, 0)
  /\ candidates[2].start = HM(9, 0)
  /\ candidates[3].start = HM(14, 0)
  /\ preferences.given /\ preferences.hours = <<9, 14>>
  /\ ret = candidates[2]

(* C8: findOptimalSlot returns none when no candidate is free against the  *)
(* occurrences, returns the single free candidate when exactly one is free *)
(* whatever the preferences, and with absent or empty preferences returns  *)
(* the first free candidate in input order.                                *)
OptimalDegenerate ==
  called = "findOptimalSlot" =>
    /\ (FreeIndexes = {} => ret = Null)
    /\ (Cardinality(FreeIndexes) = 1 => ret = candidates[FirstFreeIndex])
    /\ ((FreeIndexes # {} /\ (~preferences.given \/ preferences.hours = <<>>))
          => ret = candidates[FirstFreeIndex])

\* candidates were given, none of them free, and none was returned
OptimalNoneSeen ==
  /\ called = "findOptimalSlot"
  /\ Len(candidates) >= 2 /\ FreeIndexes = {}
  /\ preferences.given /\ preferences.hours # <<>>
  /\ ret = Null

-----------------------------------------------------------------------------
Listed == called \in {"listEvents", "listAllEvents"}

\* the lines the call reads: one calendar's, or all of them
InScope(j) == called = "listAllEvents" \/ lines[j].calendar = calendar

\* the occurrences emitted for line j (uids identify the lines)
EmittedFor(j) == {i \in 1..Len(ret) : ret[i].uid = lines[j].uid}

RuleText(j) == lines[j].recurrence.kind \in {"malformed", "rule"}

(* C9: every occurrence that listEvents or listAllEvents emits for a       *)
(* recurring definition has endDate - startDate equal to the definition's  *)
(* base end - base start, on the expansion path and on the parse-failure   *)
(* fallback path alike.                                                    *)
DurationPreserved ==
  Listed =>
    \A j \in 1..Len(lines) :
      RuleText(j) =>
        \A i \in EmittedFor(j) :
          ret[i].endDate - ret[i].startDate
            = lines[j].endDate - lines[j].startDate

\* a rule was expanded into two occurrences, one not at the base start, and
\* another line with a malformed rule fell back to its base event
DurationPreservedSeen ==
  /\ Listed /\ Len(lines) = 2
  /\ lines[1].recurrence.kind = "rule" /\ lines[2].recurrence.kind = "malformed"
  /\ lines[1].startDate < queryStartDate
  /\ Cardinality(EmittedFor(1)) = 2 /\ Cardinality(EmittedFor(2)) = 1
  /\ \A i \in EmittedFor(1) : ret[i].startDate # lines[1].startDate

(* C10: a definition with an empty or absent recurrence rule yields        *)
(* exactly one occurrence when queryStart <= base start <= queryEnd (both  *)
(* bounds included) and yields no occurrence otherwise, whatever its end   *)
(* time.                                                                   *)
NonRecurringWindowed ==
  Listed =>
    \A j \in 1..Len(lines) :
      (InScope(j) /\ lines[j].recurrence.kind \in {"absent", "empty"}) =>
        /\ Cardinality(EmittedFor(j)) =
             (IF queryStartDate <= lines[j].startDate
                 /\ lines[j].startDate <= queryEndDate THEN 1 ELSE 0)
        /\ \A i \in EmittedFor(j) :
             /\ ret[i].startDate = lines[j].startDate
             /\ ret[i].endDate = lines[j].endDate

\* a non-recurring event that starts exactly at the end of the range was
\* listed, and one that starts after it was not
NonRecurringAtEndSeen ==
  /\ Listed /\ Len(lines) = 2
  /\ queryStartDate < queryEndDate
  /\ lines[1].recurrence.kind = "empty" /\ lines[1].startDate = queryEndDate
  /\ lines[2].recurrence.kind = "absent" /\ lines[2].startDate > queryEndDate
  /\ InScope(1) /\ InScope(2)
  /\ Len(ret) = 1 /\ ret[1].uid = lines[1].uid

-----------------------------------------------------------------------------
\* lines without line j
Without(ls, j) == [i \in 1..(Len(ls) - 1) |-> IF i < j THEN ls[i] ELSE ls[i + 1]]

\* the listing the same call gives for the lines ls
Relisted(ls) ==
  IF called = "listEvents"
  THEN listEvents(ls, calendar, queryStartDate, queryEndDate)
  ELSE listAllEvents(ls, queryStartDate, queryEndDate)

NotOfLine(j, e) == e.uid # lines[j].uid

(* C11: when parsing a definition's non-empty recurrence rule fails, the   *)
(* expander emits exactly one occurrence carrying the definition's own     *)
(* base start and end, also when that base start lies outside              *)
(* [queryStart, queryEnd], and the listing call still returns the other    *)
(* definitions' occurrences.                                               *)
MalformedRuleFallback ==
  Listed =>
    \A j \in 1..Len(lines) :
      (InScope(j) /\ lines[j].recurrence.kind = "malformed") =>
        /\ Cardinality(EmittedFor(j)) = 1
        /\ \A i \in EmittedFor(j) :
             /\ ret[i].startDate = lines[j].startDate
             /\ ret[i].endDate = lines[j].endDate
        /\ SelectSeq(ret, LAMBDA e : NotOfLine(j, e)) = Relisted(Without(lines, j))

\* a line with a malformed rule whose base start is outside the range was
\* listed after the occurrence of another line
MalformedOutsideSeen ==
  /\ Listed /\ Len(lines) = 2
  /\ lines[2].recurrence.kind = "malformed"
  /\ lines[2].startDate > queryEndDate
  /\ lines[1].recurrence.kind = "empty"
  /\ Len(ret) = 2
  /\ ret[1].uid = lines[1].uid
  /\ ret[2].uid = lines[2].uid /\ ret[2].startDate = lines[2].startDate

\* the starts the rule of line j has in the range, both ends included
RuleStartsInRange(j) ==
  LET r == lines[j].recurrence
      last == (queryEndDate - lines[j].startDate) \div r.every
  IN  {s \in {lines[j].startDate + k * r.every :
                 k \in {n \in 0..last : r.count = 0 \/ n < r.count}} :
         queryStartDate <= s /\ s <= queryEndDate}

(* C12: for a definition with a well-formed rule, the emitted occurrences  *)
(* are exactly the rule's occurrences whose start s satisfies              *)
(* queryStart <= s <= queryEnd: one starting exactly at queryStart or      *)
(* exactly at queryEnd is included, and none starting outside is emitted.  *)
RuleOccurrencesWindowed ==
  Listed =>
    \A j \in 1..Len(lines) :
      (InScope(j) /\ lines[j].recurrence.kind = "rule") =>
        /\ {ret[i].startDate : i \in EmittedFor(j)} = RuleStartsInRange(j)
        /\ Cardinality(EmittedFor(j)) = Cardinality(RuleStartsInRange(j))

\* a daily rule was expanded into one occurrence exactly at the start and one
\* exactly at the end of the range
RuleAtBothEndsSeen ==
  /\ Listed /\ Len(lines) = 1 /\ InScope(1)
  /\ lines[1].recurrence = Recurrence("rule", Day, 0)
  /\ lines[1].startDate < queryStartDate
  /\ queryEndDate = queryStartDate + Day
  /\ Len(ret) = 2
  /\ ret[1].startDate = queryStartDate /\ ret[2].startDate = queryEndDate

-----------------------------------------------------------------------------
\* the occurrences of line 1 start 7 days apart and last as long as its base
WeekApartSameDuration ==
  /\ \A i \in 1..(Len(ret) - 1) : ret[i + 1].startDate = ret[i].startDate + 7 * Day
  /\ \A i \in 1..Len(ret) :
       ret[i].endDate - ret[i].startDate = lines[1].endDate - lines[1].startDate

OnRangeStart(j) ==
  /\ lines[j].startDate <= queryStartDate
  /\ (queryStartDate - lines[j].startDate) % (7 * Day) = 0

-----------------------------------------------------------------------------
\* the length of the period, in milliseconds
PeriodMs == (endDate - startDate) * 60 * 1000 + endMillis

OneDayMs == 24 * 60 * 60 * 1000

(* C14: calculateMeetingDensity(events, start, end) equals events.length   *)
(* divided by ceil((end - start) / 1 day), so a period of any positive     *)
(* length up to one day counts as one day and a period of one day plus one *)
(* millisecond counts as two.                                              *)
DensityCeilDays ==
  called = "calculateMeetingDensity" =>
    /\ ret.num = Len(events)
    /\ ret.den * OneDayMs >= PeriodMs
    /\ (ret.den - 1) * OneDayMs < PeriodMs
    /\ (0 < PeriodMs /\ PeriodMs <= OneDayMs => ret.den = 1)
    /\ (PeriodMs = OneDayMs + 1 => ret.den = 2)

\* the density over one day plus one millisecond was taken over two days
DensityDayPlusMsSeen ==
  /\ called = "calculateMeetingDensity"
  /\ PeriodMs = OneDayMs + 1
  /\ Len(events) = 2
  /\ ret = [num |-> 2, den |-> 2]

RECURSIVE SumDurations(_)
SumDurations(evs) ==
  IF evs = <<>> THEN 0
  ELSE (Head(evs).endDate - Head(evs).startDate) + SumDurations(Tail(evs))

(* C15: calculateTotalDuration(events) is the sum of endDate - startDate   *)
(* over every event with no deduplication of overlapping events, so        *)
(* calculateTotalDuration(A ++ B) = calculateTotalDuration(A) +            *)
(* calculateTotalDuration(B) for all lists A and B, and the empty list     *)
(* gives 0.                                                                *)
TotalDurationAdditive ==
  called = "calculateTotalDuration" =>
    /\ ret = SumDurations(events)
    /\ \A k \in 0..Len(events) :
         ret = calculateTotalDuration(SubSeq(events, 1, k))
                 + calculateTotalDuration(SubSeq(events, k + 1, Len(events)))
    /\ (events = <<>> => ret = 0)

\* two overlapping events were both counted in full
TotalDurationOverlapSeen ==
  /\ called = "calculateTotalDuration"
  /\ Len(events) = 2
  /\ events[1].startDate = events[2].startDate
  /\ events[1].endDate # events[2].endDate
  /\ ret = 45 + 60

\* the calendar date of instant t on the local clock, as the number of its day
LocalDate(t) == t \div (24 * 60)

OnLocalDate(key, e) == LocalDate(e.startDate) = key

(* C16: groupEventsByDay places every occurrence in exactly one group, the *)
(* group keyed by the calendar date of its start in the local time zone;   *)
(* an occurrence spanning midnight appears only under its start day, and   *)
(* within a group input order is kept.                                     *)
GroupedByLocalStartDay ==
  called = "groupEventsByDay" =>
    /\ \A g, h \in 1..Len(ret) : ret[g].key = ret[h].key => g = h
    /\ \A i \in 1..Len(events) :
         \E g \in 1..Len(ret) : ret[g].key = LocalDate(events[i].startDate)
    /\ \A g \in 1..Len(ret) :
         ret[g].events = SelectSeq(events, LAMBDA e : OnLocalDate(ret[g].key, e))

-----------------------------------------------------------------------------
EngineFunctions ==
  {"findConflicts", "isFree", "findFreeSlots", "findOptimalSlot",
   "calculateMeetingDensity", "calculateTotalDuration", "groupEventsByDay"}

(* C17: findConflicts, isFree, findFreeSlots, findOptimalSlot,             *)
(* calculateMeetingDensity, calculateTotalDuration and groupEventsByDay    *)
(* leave their inputs unchanged: after any call the events list, the       *)
(* candidates list (including its order) and the window dates passed in    *)
(* are equal to their values before the call.                              *)
ArgumentsUnchanged ==
  [][called' \in EngineFunctions =>
       /\ events' = events
       /\ candidates' = candidates
       /\ timeSlot' = timeSlot
       /\ startDate' = startDate /\ endDate' = endDate /\ endMillis' = endMillis]_vars

\* findOptimalSlot sorted its scored slots and returned the second of two
\* free candidates, which still stands second in the candidates list
SortedCopySeen ==
  /\ called = "findOptimalSlot"
  /\ Len(candidates) = 2 /\ events = <<>>
  /\ candidates[1].start = HM(10, 0) /\ candidates[2].start = HM(14, 0)
  /\ preferences.given /\ preferences.hours = <<14>>
  /\ ret = candidates[2]

-----------------------------------------------------------------------------
\* The occurrences of stored line j that overlap [s, e): the event itself,
\* or every occurrence of its rule
StoredOverlapping(j, s, e) ==
  LET l == lines[j]
      n == IF l.recurrence.kind = "rule" /\ e > l.startDate
           THEN (e - l.startDate) \div l.recurrence.every ELSE 0
  IN  {o \in {[uid |-> l.uid,
               startDate |-> l.startDate + k * l.recurrence.every,
               endDate |-> l.endDate + k * l.recurrence.every] : k \in 0..n} :
         Overlapping(s, e, o.startDate, o.endDate)}

AskedSlot == parseDateRange(request.start, request.end)

CheckedLines ==
  {j \in 1..Len(lines) : request.calendar \in {<<>>, lines[j].calendar}}

(* C18: check_conflicts reports the slot [start, end) as FREE only when no *)
(* event stored in the queried calendar(s) overlaps that slot; every       *)
(* stored event that overlaps the slot, including one that began before    *)
(* the slot's start, is listed as a conflict.                              *)
ConflictsReportedExactly ==
  (called = "check_conflicts" /\ ~ret.isError) =>
    LET stored == UNION {StoredOverlapping(j, AskedSlot.start, AskedSlot.end) :
                           j \in CheckedLines}
    IN  /\ (ret.text = <<"FREE">> => stored = {})
        /\ \A o \in stored :
             \E i \in 1..Len(ret.conflicts) :
               /\ ret.conflicts[i].uid = o.uid
               /\ ret.conflicts[i].startDate = o.startDate
               /\ ret.conflicts[i].endDate = o.endDate

SearchWindow == parseDateRange(request.start_search, request.end_search)

(* C19: every slot reported by find_free_time overlaps no event stored in  *)
(* any calendar, including events that start before the search window and  *)
(* run into it.                                                            *)
ReportedSlotsAreFree ==
  (called = "find_free_time" /\ ~ret.isError) =>
    \A i \in 1..Len(ret.slots) :
      \A j \in 1..Len(lines) :
        StoredOverlapping(j, ret.slots[i].start, ret.slots[i].end) = {}

-----------------------------------------------------------------------------
\* The calls the backend's calendars cals make a rejected operation
Rejected(tool, args, cals) ==
  \/ tool = "create_calendar" /\ Holds(cals, args.name)
  \/ tool = "delete_calendar" /\ ~Holds(cals, args.name)
  \/ tool = "rename_calendar"
       /\ (~Holds(cals, args.old_name) \/ Holds(cals, args.new_name))

(* C20: a rejected calendar operation changes nothing: create_calendar     *)
(* with a name that already exists, delete_calendar of a missing name, and *)
(* rename_calendar from a missing old name or to an already existing new   *)
(* name each return an error response and leave the backend's calendar set *)
(* and the history log unchanged.                                          *)
RejectedChangesNothing ==
  [][Rejected(called', request', calendars) =>
       ret'.isError /\ calendars' = calendars /\ history' = history]_vars

-----------------------------------------------------------------------------
\* The create_event calls the claim has fail: input that does not validate,
\* a target calendar the backend does not hold, a text that is no date, an
\* end that is not after the start
CreateEventMustFail(args, cals) ==
  \/ args.summary = <<>> \/ ~args.start.given
  \/ ~Holds(cals, IF args.calendar # <<>> THEN args.calendar
                  ELSE default_calendar)
  \/ ~args.start.parses
  \/ (args.end.given /\ ~args.end.parses)
  \/ (args.end.given /\ args.end.parses /\ args.end.date <= args.start.date)

(* C21: create_event never applies partially: when input validation       *)
(* fails, the target calendar does not exist, or date parsing fails        *)
(* (including an end that is not after the start), it returns an error     *)
(* response, no event is created in the backend and no history entry is    *)
(* recorded.                                                               *)
CreateEventAllOrNothing ==
  [][(called' = "create_event" /\ CreateEventMustFail(request', calendars)) =>
       ret'.isError /\ lines' = lines /\ history' = history]_vars

\* create_event refused for an end at its start, with an event in the
\* backend and a row in the history
CreateEventRefusedSeen ==
  /\ called = "create_event" /\ ret.isError
  /\ lines # <<>> /\ history # <<>>
  /\ request.summary # <<>> /\ request.start.parses
  /\ request.end.given /\ request.end.parses
  /\ request.end.date <= request.start.date

-----------------------------------------------------------------------------
(* C22: after any sequence of tool calls the history store holds at most   *)
(* 100 entries, namely the 100 most recent operations.                     *)
HistoryWithinLimit == Len(history) <= historyLimit

-----------------------------------------------------------------------------
\* The tools that create, update, move, rename or delete a calendar or an
\* event
ChangingTools ==
  {"create_calendar", "delete_calendar", "rename_calendar", "create_event",
   "update_event", "delete_event", "move_event", "use_template"}

(* C23: every successful tool call that creates, updates, moves, renames   *)
(* or deletes a calendar or an event appends exactly one history entry.    *)
SuccessAppendsOneRow ==
  [][(called' \in ChangingTools /\ ~ret'.isError) =>
       /\ Len(history') = Len(history) + 1
       /\ SubSeq(history', 1, Len(history)) = history]_vars

-----------------------------------------------------------------------------
\* The response of a call whose backend call threw
BackendFailed(response) == response = Caught(AppleScriptFailed)

(* C30: every history entry corresponds to a backend operation that        *)
(* completed successfully: when the backend call of delete_calendar,       *)
(* rename_calendar, delete_event, create_calendar, create_event,           *)
(* update_event or move_event fails, the tool call returns an error and    *)
(* the history log has no entry for that call.                             *)
FailedCallLeavesNoRow ==
  [][(called' \in ChangingTools \ {"use_template"} /\ BackendFailed(ret')) =>
       ret'.isError /\ history' = history]_vars

-----------------------------------------------------------------------------
\* days of calculateMeetingDensity for the period the handler passed
AnalysisDays ==
  calculateMeetingDensity(events, getTime(startDate, 0), getTime(endDate, 0)).den

(* C28: the server never violates the engine's preconditions: in every     *)
(* find_free_time, suggest_optimal_time and analyze_schedule call that     *)
(* reaches the engine, windowEnd > windowStart, duration > 0, and the      *)
(* analytics period gives days >= 1; requests that would violate them are  *)
(* answered with an error before the engine is invoked.                    *)
EnginePreconditionsKept ==
  /\ (called \in {"find_free_time", "suggest_optimal_time"} /\ ~ret.isError) =>
       /\ endDate > startDate
       /\ duration.type = "number" /\ duration.value > 0
  /\ (called = "analyze_schedule" /\ ~ret.isError) =>
       endDate > startDate /\ AnalysisDays >= 1

-----------------------------------------------------------------------------
\* The texts of a request the date parser is given, and the length it adds
\* to a start without an end
ParsedTexts(tool, args) ==
  IF tool \in {"find_free_time", "suggest_optimal_time"}
  THEN [start |-> args.start_search, end |-> args.end_search, length |-> 60]
  ELSE IF tool = "create_event"
  THEN [start |-> args.start, end |-> args.end,
        length |-> default_event_duration]
  ELSE [start |-> args.start, end |-> args.end, length |-> 60]

\* The call gets as far as the date parser: what the handler asks of the
\* request and of the backend before it parses
ReachesParser(tool, args, cals) ==
  \/ tool \in {"list_events", "list_all_events", "search_events",
               "analyze_schedule", "check_conflicts"}
  \/ tool = "find_free_time" /\ findFreeTimeValid(args)
  \/ tool = "suggest_optimal_time" /\ ~durationRefused(args.duration_minutes)
  \/ tool = "create_event" /\ args.summary # <<>> /\ args.start.given
       /\ calendarExists(cals, IF args.calendar # <<>> THEN args.calendar
                               ELSE default_calendar)

\* The message of the exception a call raises in the date parser, in the
\* calendar backend (an event that is not there) or in the template store
\* (a name the table holds); <<>> when the call raises none of these
RaisedMessage(tool, args, cals, ls, tpls) ==
  IF args = Null THEN <<>>
  ELSE IF ReachesParser(tool, args, cals)
  THEN LET texts == ParsedTexts(tool, args)
       IN  parseDateRangeWith(texts.start, texts.end, texts.length).message
  ELSE IF tool = "update_event" /\ args.event_uid # <<>>
  THEN IF args.start.given /\ ~args.start.parses THEN CouldNotParse
       ELSE IF args.start.given /\ ~HoldsEvent(ls, args.event_uid)
       THEN AppleScriptFailed ELSE <<>>
  ELSE IF tool = "delete_event" /\ args.event_uid # <<>>
            /\ ~HoldsEvent(ls, args.event_uid)
  THEN AppleScriptFailed
  ELSE IF tool = "use_template" /\ HasTemplate(tpls, args.template_name)
            /\ ~args.start.parses
  THEN CouldNotParse
  ELSE IF tool = "create_template" /\ HasTemplate(tpls, args.name)
  THEN <<"UNIQUE constraint failed: templates.name">>
  ELSE <<>>

\* str.endsWith(part), piece by piece
EndsWith(str, part) ==
  /\ Len(str) >= Len(part)
  /\ SubSeq(str, Len(str) - Len(part) + 1, Len(str)) = part

\* The call named no tool of the server or brought no arguments
Unserved(tool, args) == args = Null \/ tool = "undo"

-----------------------------------------------------------------------------
\* The candidate that starts at t is one findFreeSlots accepts: it is on
\* the half-hour grid of the window, fits before its end, is not skipped
\* as outside business hours and overlaps no event
AcceptedCandidate(t) ==
  /\ t >= startDate /\ (t - startDate) % step = 0
  /\ t + duration <= endDate
  /\ ~(businessHoursOnly /\ (getHours(t) < 9 \/ getHours(t) >= 17))
  /\ \A i \in 1..Len(events) :
       ~(t < events[i].endDate /\ events[i].startDate < t + duration)

(* C25: the slots returned by findFreeSlots are in strictly increasing     *)
(* start order with no duplicates; each starts at windowStart + k * 30     *)
(* minutes for an integer k >= 0, has end - start = duration, starts at or *)
(* after windowStart and ends at or before windowEnd; accepted slots that  *)
(* touch or overlap are never merged: each accepted candidate is a slot of *)
(* its own.                                                                *)
SlotsOnGridInOrderUnmerged ==
  called = "findFreeSlots" =>
    /\ \A i \in 1..Len(ret) :
         /\ ret[i].start >= startDate
         /\ (ret[i].start - startDate) % step = 0
         /\ ret[i].end - ret[i].start = duration
         /\ ret[i].end <= endDate
    /\ \A i \in 1..(Len(ret) - 1) : ret[i].start < ret[i + 1].start
    /\ \A t \in startDate..endDate :
         AcceptedCandidate(t) <=>
           \E i \in 1..Len(ret) : ret[i] = [start |-> t, end |-> t + duration]

\* findFreeSlots returned two slots of which the first ends after the
\* second starts
OverlappingSlotsKeptApart ==
  /\ called = "findFreeSlots"
  /\ Len(ret) >= 2
  /\ ret[1].end > ret[2].start
  /\ ret[1].start < ret[2].start

-----------------------------------------------------------------------------
(* C26: findFreeSlots terminates for every finite window, duration and     *)
(* occurrence list: each loop iteration, the one that skips a candidate    *)
(* outside business hours included, moves the candidate start on by 30     *)
(* minutes, until candidateStart + duration exceeds windowEnd and the      *)
(* slots collected are returned.                                           *)
LoopAdvancesAndEnds ==
  /\ <>(called = "return")
  /\ [][called = "while" /\ called' = "while" => cursor' = cursor + 30]_vars
  /\ [](IF called = "return"
        THEN /\ cursor + duration > endDate
             /\ ret = findFreeSlots(startDate, endDate, duration, events,
                                    businessHoursOnly)
        ELSE ret = <<>>)

\* the loop has returned after it skipped its first candidate as outside
\* business hours
ReturnedAfterSkip ==
  /\ called = "return"
  /\ businessHoursOnly
  /\ startDate + duration <= endDate
  /\ getHours(startDate) < 9
  /\ cursor > startDate

-----------------------------------------------------------------------------
\* The slot shares time with the event: each starts before the other ends
SharesTime(slot, event) ==
  slot.start < event.endDate /\ event.startDate < slot.end

(* C27: whenever findOptimalSlot returns a slot, that slot is one of the   *)
(* candidates passed in and overlaps no occurrence of the list passed in,  *)
(* also when the candidates were produced against a different occurrence   *)
(* set (some of them overlap an occurrence) and whatever the preferences.  *)
OptimalIsFreeCandidate ==
  (called = "findOptimalSlot" /\ ret # Null) =>
    /\ \E i \in 1..Len(candidates) : candidates[i] = ret
    /\ \A j \in 1..Len(events) : ~SharesTime(ret, events[j])

\* a slot was returned although the first candidate, at a preferred hour,
\* overlaps an occurrence
BusyPreferredPassedOver ==
  /\ called = "findOptimalSlot"
  /\ ret # Null
  /\ Len(candidates) >= 2 /\ Len(events) >= 1
  /\ SharesTime(candidates[1], events[1])
  /\ preferences.given
  /\ \E k \in 1..Len(preferences.hours) :
       preferences.hours[k] = getHours(candidates[1].start)
  /\ ret # candidates[1]

-----------------------------------------------------------------------------
\* Calls i and j were in flight at the same time, both create_calendar of
\* one name
ConcurrentCreates(i, j) ==
  /\ i \in pending[j].during
  /\ pending[i].tool = "create_calendar" /\ pending[j].tool = "create_calendar"
  /\ pending[i].args.name = pending[j].args.name

(* C29: under any interleaving of concurrent create_calendar and           *)
(* rename_calendar requests no calendar name is ever created twice: the    *)
(* backend never holds two calendars with the same name, and at most one   *)
(* of two concurrent create_calendar requests for the same name reports    *)
(* success.                                                                *)
NoNameCreatedTwice ==
  /\ \A m, n \in 1..Len(calendars) : m # n => calendars[m] # calendars[n]
  /\ \A i, j \in 1..Len(pending) :
       (/\ ConcurrentCreates(i, j)
        /\ pending[i].at = "returned" /\ pending[j].at = "returned")
         => (pending[i].response.isError \/ pending[j].response.isError)

====
